---- MODULE Spec2Model ----
(***************************************************************************)
(* Verification model of Pharos-Bot: the route builder and executor        *)
(* (route_manager.py), the batch orchestrator (module_processor.py), the   *)
(* reporting aggregator (src/utils/telegram_reporter.py), the run          *)
(* operations of the task modules (src/tasks) and the components below     *)
(* them (src/api, src/wallet.py, src/utils).                               *)
(***************************************************************************)
EXTENDS Integers, Sequences, FiniteSets, TLC

VARIABLES
    \* ---- route builder / executor (route_manager.py) ----
    ROUTE_TASK,        \* configs.ROUTE_TASK, the configured task list
    initial_route,     \* get_validated_route: result of create_optimized_route
    route,             \* get_validated_route: result of validate_route
    excluded_count,    \* get_validated_route: len(initial_route) - len(validated_route)
    rpc,               \* position of process_route
    idx,               \* execute_route: number of route entries already executed
    results,           \* execute_route: dict task name -> task result
    calls,             \* handler invocations made so far, in order
    outcomes,          \* what each invoked handler did, in order
    route_ret          \* value returned by process_route

VARIABLES
    \* ---- batch orchestrator (module_processor.py) ----
    accounts,               \* len(config.accounts); the roster is 1..accounts
    threads,                \* config.threads
    send_stats_to_telegram, \* config.send_stats_to_telegram
    AUTO_ROUTE_REPEAT,      \* configs.AUTO_ROUTE_REPEAT
    config_module,          \* config.module, the selected menu action
    opc,                    \* position of the orchestrator (run_main_loop / process_module)
    runs,                   \* module runs started by run_main_loop so far
    cycle,                  \* handle_auto_route_module: cycle
    batch_size,             \* _process_accounts_in_batches: batch_size
    batch_i,                \* _process_accounts_in_batches: i (0-based start of the batch)
    tpc,                    \* position of each account's process_single_account task
    hres,                   \* process_single_account: (success, message) of the account
    hlog,                   \* what the handler of each account did (per task for auto_route)
    semaphore,              \* bot_loader.semaphore: permits left
    progress,               \* the AccountProgress instance
    execution_results,      \* TelegramReporter.execution_results
    reports_sent,           \* aggregated reports delivered during the current module run
    stats_logged,           \* final-statistics banners logged during the current module run
    sleeps_done,            \* inter-cycle sleeps completed during the current module run
    last_report             \* content of the aggregated report delivered last

routeVars == <<ROUTE_TASK, initial_route, route, excluded_count, rpc, idx,
               results, calls, outcomes, route_ret>>

configVars == <<accounts, threads, send_stats_to_telegram, AUTO_ROUTE_REPEAT>>

orchVars == <<config_module, opc, runs, cycle, batch_size, batch_i>>

taskVars == <<tpc, hres, hlog, semaphore>>

logVars == <<reports_sent, stats_logged, sleeps_done, last_report>>

moduleVars == <<orchVars, taskVars, progress, execution_results, logVars>>

\* one task module's run operation, called by its handler
VARIABLES
    run_op,       \* the run operation under way
    run_pc,       \* its position
    attempt,      \* the loop variable of its retry loop
    run_ret,      \* what it returned or raised
    run_log,      \* the error and warning lines it logged
    run_rec,      \* what execute_single_task recorded for it
    backend_answer,  \* response['data'] the last attempt received
    run_history   \* the answers and outcomes of the finished calls of the handler

runVars == <<run_op, run_pc, attempt, run_ret, run_log, run_rec, backend_answer,
            run_history>>

\* one call of HTTPClient.send_request (src/api/http/http_client.py)
VARIABLES
    validate_status,   \* send_request: validate_status
    max_retries,       \* send_request: max_retries
    http_pc,           \* position of send_request
    http_attempt,      \* send_request: attempt
    last_error,        \* send_request: last_error
    http_log,          \* what the target did at each request made, in order
    backoff_sleeps,    \* asyncio.sleep(delay) calls made between attempts
    http_ret           \* what send_request returned or raised

httpVars == <<validate_status, max_retries, http_pc, http_attempt, last_error,
              http_log, backoff_sleeps, http_ret>>

\* one call of a Wallet method wrapped by retry_with_rpc_switch (src/wallet.py)
VARIABLES
    rpc_urls,            \* len(self.rpc_urls)
    current_rpc_index,   \* self.current_rpc_index
    web3,                \* self.web3: the number of the client _create_web3 made last
    wallet_pc,           \* position of the wrapper
    current_attempt,     \* wrapper: current_attempt
    func_calls,          \* calls of the wrapped operation made by the wrapper
    wallet_log,          \* str(e) of each failed call, in order
    wallet_ret           \* what the wrapper returned or raised

walletVars == <<rpc_urls, current_rpc_index, web3, wallet_pc, current_attempt,
                func_calls, wallet_log, wallet_ret>>

\* one construction of ZenithSwapBaseModule (src/tasks/zenith/config_modules.py)
VARIABLES
    pair_table,   \* the pair table handed to validate_pair_swap, in dict order
    pair_pc,      \* position of the construction
    pair_ret      \* what validate_pair_swap returned or raised

pairVars == <<pair_table, pair_pc, pair_ret>>

\* run_full_registration and run_faucets
VARIABLES
    comp_op,        \* the composite operation under way
    comp_pc,        \* its position
    comp_step,      \* the stage it is at
    comp_results,   \* results: stage -> (success, message)
    comp_outcomes,  \* what the stages executed so far returned or raised
    comp_ret        \* what the composite operation returned

compVars == <<comp_op, comp_pc, comp_step, comp_results, comp_outcomes, comp_ret>>

\* the bad-token quarantine store (utils/excel_processor.py)
VARIABLES
    bad_tokens_file,      \* the lines of bad_twitter_token.txt and bad_discord_token.txt
    worksheet,            \* the account rows of accounts.xlsx: the two token cells
    excel_readable,       \* accounts.xlsx loads and has the token columns
    file_operation_lock,  \* the task holding the lock, 0 when it is free
    quar_pc,              \* per account task: its position in save_bad_*_token
    quar_arg,             \* per account task: the column and the token it was given
    bad_tokens,           \* per account task: what load_bad_tokens_from_file returned
    token_saved,          \* per account task: token_saved
    token_removed,        \* per account task: token_removed
    quar_order,           \* the tasks in the order they entered process_bad_token
    quar_before,          \* per account task: both artifacts when it entered
    quar_after            \* per account task: both artifacts when it left

quarVars == <<bad_tokens_file, worksheet, excel_readable, file_operation_lock, quar_pc,
              quar_arg, bad_tokens, token_saved, token_removed, quar_order,
              quar_before, quar_after>>

\* run_connect_twitter and run_connect_discord
VARIABLES
    link_platform,    \* "twitter" or "discord"
    link_pc,          \* position of the run operation
    link_attempt,     \* the loop variable attempt
    link_log,         \* what each call of link_*_account met, in order
    session_open,     \* self.session is open
    sessions_opened,  \* sessions opened so far
    bind_body,        \* the body of the last answer of the bind endpoint
    link_error,       \* str(e) of the error of the last pass, as fragments
    link_ret          \* what the run operation returned

linkVars == <<link_platform, link_pc, link_attempt, link_log, session_open,
              sessions_opened, bind_body, link_error, link_ret>>

\* the console menu (console/cli.py)
VARIABLES
    current_menu,     \* Console.current_menu: the title of the menu shown
    running,          \* Console.running
    should_exit,      \* Console.should_exit
    selected_action,  \* Console.selected_action, "" for None
    menu_input,       \* the last line typed at "Select option: "
    menu_inputs,      \* lines typed during the current build()
    builds            \* calls of build() so far

menuVars == <<current_menu, running, should_exit, selected_action, menu_input,
              menu_inputs, builds>>

\* the aggregator of TelegramReporter used on its own
VARIABLES
    agg_results,  \* TelegramReporter.execution_results
    agg_calls     \* the add_execution_result calls since the last clear

aggVars == <<agg_results, agg_calls>>

\* Wallet transactions: _check_and_approve_token, send_and_verify_transaction
VARIABLES
    tx_call,      \* the operation called: "send", "approve" or "swap"
    tx_pc,        \* position inside it
    name_token_1, \* swap: the token given
    name_token_2, \* swap: the token received
    amount,       \* the amount to approve (swap: amount_in)
    swap_attempt, \* swap: attempt of the retry loop
    transaction,  \* the transaction parameters: nonce and approved amount
    tx_hash,      \* tx_hash of the running function body, -1 for None
    tx_depth,     \* nested calls of send_and_verify_transaction
    tx_log,       \* the calls made to the node and their outcomes, in order
    send_ret,     \* what send_and_verify_transaction returned or raised last
    tx_ret        \* what the called operation returned

txVars == <<tx_call, tx_pc, name_token_1, name_token_2, amount, swap_attempt,
            transaction, tx_hash, tx_depth, tx_log, send_ret, tx_ret>>

\* run_send_to_friends: the amount transferred (amounts in 10^-6 PHRS)
VARIABLES
    MAX_SEND_PHRS,   \* configs.MAX_SEND_PHRS
    friends_pc,      \* position of run_send_to_friends
    friends_attempt, \* attempt of its retry loop
    balance,         \* human_balance() of the attempt
    send_amount,     \* the amount of the attempt, -1 before it is drawn
    transfers        \* how each attempt that built a transfer ended, in order

friendsVars == <<MAX_SEND_PHRS, friends_pc, friends_attempt, balance, send_amount,
                 transfers>>

\* ZenithSwapModule.calculate_amount_out_minimum (integers as digit
\* sequences, <<>> for zero)
VARIABLES
    slippage,            \* self.slippage
    slip_pc,             \* position of calculate_amount_out_minimum
    quoted,              \* amount_out of the quote
    amount_out_minimum   \* what apply_slippage returned

slipVars == <<slippage, slip_pc, quoted, amount_out_minimum>>

\* CaptchaSolver.solve_captcha
VARIABLES
    cap_pc,       \* position of solve_captcha
    cap_attempt,  \* attempt of the loop of solve_captcha
    poll_attempt, \* attempt of the loop of _wait_for_solution
    cap_log,      \* the steps made and how they ended, in order
    cap_ret       \* the token returned or the error raised

capVars == <<cap_pc, cap_attempt, poll_attempt, cap_log, cap_ret>>

\* process_route called again by the auto_route handler of its own route
VARIABLES
    nest_pc,             \* position of the outermost process_route call
    nest_tasks,          \* configs.ROUTE_TASK of this execution
    top_route,           \* validated route of the outermost process_route call
    call_stack,          \* one frame (route, idx) per process_route call under way
    handler_calls        \* task names whose handler was invoked, in order

nestVars == <<nest_pc, nest_tasks, top_route, call_stack, handler_calls>>

\* what one handler of the task registry opens and closes (src/task_manager.py)
VARIABLES
    res_pc,              \* position of the handler
    res_handler,         \* registry name of the handler
    providers,           \* transport of every provider _create_web3 made; the last is self._provider
    api_client,          \* session of the module's HTTPClient
    res_calls,           \* RPC requests made by the handler so far
    res_outcome          \* how the handler ended

resVars == <<res_pc, res_handler, providers, api_client, res_calls, res_outcome>>

\* the application: routes, orchestrator, run operations
appVars == <<routeVars, configVars, moduleVars, runVars>>

\* the components below the task modules
libVars == <<httpVars, walletVars, pairVars, compVars, quarVars, linkVars, menuVars, aggVars, txVars, friendsVars, slipVars, capVars, nestVars, resVars>>

\* what an action of one component leaves alone in the other components
exceptHttp == <<appVars, walletVars, pairVars, compVars, quarVars, linkVars, menuVars, aggVars, txVars, friendsVars, slipVars, capVars, nestVars, resVars>>

exceptWallet == <<appVars, httpVars, pairVars, compVars, quarVars, linkVars, menuVars, aggVars, txVars, friendsVars, slipVars, capVars, nestVars, resVars>>

exceptPair == <<appVars, httpVars, walletVars, compVars, quarVars, linkVars, menuVars, aggVars, txVars, friendsVars, slipVars, capVars, nestVars, resVars>>

exceptComp == <<appVars, httpVars, walletVars, pairVars, quarVars, linkVars, menuVars, aggVars, txVars, friendsVars, slipVars, capVars, nestVars, resVars>>

exceptQuar == <<appVars, httpVars, walletVars, pairVars, compVars, linkVars, menuVars, aggVars, txVars, friendsVars, slipVars, capVars, nestVars, resVars>>

exceptLink == <<appVars, httpVars, walletVars, pairVars, compVars, quarVars, menuVars, aggVars, txVars, friendsVars, slipVars, capVars, nestVars, resVars>>

exceptMenu == <<appVars, httpVars, walletVars, pairVars, compVars, quarVars, linkVars, aggVars, txVars, friendsVars, slipVars, capVars, nestVars, resVars>>

exceptAgg == <<appVars, httpVars, walletVars, pairVars, compVars, quarVars, linkVars, menuVars, txVars, friendsVars, slipVars, capVars, nestVars, resVars>>

exceptTx == <<appVars, httpVars, walletVars, pairVars, compVars, quarVars, linkVars, menuVars, aggVars, friendsVars, slipVars, capVars, nestVars, resVars>>

exceptFriends == <<appVars, httpVars, walletVars, pairVars, compVars, quarVars, linkVars, menuVars, aggVars, txVars, slipVars, capVars, nestVars, resVars>>

exceptSlip == <<appVars, httpVars, walletVars, pairVars, compVars, quarVars, linkVars, menuVars, aggVars, txVars, friendsVars, capVars, nestVars, resVars>>

exceptCap == <<appVars, httpVars, walletVars, pairVars, compVars, quarVars, linkVars, menuVars, aggVars, txVars, friendsVars, slipVars, nestVars, resVars>>

exceptNest == <<appVars, httpVars, walletVars, pairVars, compVars, quarVars, linkVars, menuVars, aggVars, txVars, friendsVars, slipVars, capVars, resVars>>

exceptRes == <<appVars, httpVars, walletVars, pairVars, compVars, quarVars, linkVars, menuVars, aggVars, txVars, friendsVars, slipVars, capVars, nestVars>>

vars == <<appVars, libVars>>

(***************************************************************************)
(* Bounds                                                                  *)
(***************************************************************************)
MaxRouteLen == 4       \* longest configured ROUTE_TASK explored by the builder
MaxExecLen == 3        \* longest configured ROUTE_TASK explored by the executor
MaxAccounts == 2       \* largest roster
MaxThreads == 2        \* largest configured thread count
MaxCycles == 2         \* auto-route cycles explored
MaxRuns == 1           \* menu selections explored
MaxHttpRetries == 3     \* largest max_retries given to send_request
MaxRpcUrls == 2         \* longest list of RPC endpoints
MaxWalletCalls == 5     \* calls of a wrapped wallet operation explored
MaxPairs == 2           \* most entries of a swap-pair table
MaxRunCalls == 2        \* calls of one handler that are followed
MaxTasks == 2           \* account tasks that quarantine a token concurrently
MaxRows == 1            \* most account rows of the spreadsheet
MaxResults == 4         \* add_execution_result calls between two clears
MaxSends == 3           \* send_raw_transaction calls of one operation explored
MaxNesting == 3         \* process_route calls nested before RecursionError is raised
MaxInputs == 3          \* lines typed at the menu during one build()
MaxBuilds == 2          \* calls of Console.build followed

(***************************************************************************)
(* Generic sequence helpers                                                *)
(***************************************************************************)
Range(s) == {s[i] : i \in 1..Len(s)}

SeqsUpTo(S, n) == UNION {[1..k -> S] : k \in 0..n}

Count(s, x) == Cardinality({i \in 1..Len(s) : s[i] = x})

\* list.remove(x): drops the first occurrence of x
ListRemove(s, x) ==
    LET p == CHOOSE i \in 1..Len(s) : s[i] = x /\ \A j \in 1..(i - 1) : s[j] # x
    IN  [i \in 1..(Len(s) - 1) |-> IF i < p THEN s[i] ELSE s[i + 1]]

\* [task for task in s if task in S]
Filter(s, S) == SelectSeq(s, LAMBDA t : t \in S)

\* for task in picked: s.remove(task)
RECURSIVE RemoveEach(_, _)
RemoveEach(s, picked) ==
    IF picked = <<>> THEN s
    ELSE RemoveEach(ListRemove(s, Head(picked)), Tail(picked))

\* random.shuffle(s): every rearrangement of s is a possible outcome
Shuffles(s) ==
    IF s = <<>> THEN {<<>>}
    ELSE {[i \in 1..Len(s) |-> s[p[i]]] : p \in Permutations(1..Len(s))}

(***************************************************************************)
(* Task registry: the process_* handlers of PharosBot                      *)
(***************************************************************************)
available_functions ==
    {"auto_route", "statistics_account", "full_registration", "connect_wallet",
     "connect_twitter", "connect_discord", "twitter_tasks", "daily_check_in",
     "full_faucets", "phrs_faucet", "zenith_faucet", "send_to_friends",
     "mint_pharos_badge", "mint_pharos_nft", "connect_twitter_zenith",
     "swap_zenith"}

social_connections == {"connect_twitter", "connect_discord"}
faucet_list == {"phrs_faucet", "zenith_faucet"}

(***************************************************************************)
(* RouteOptimizer.create_optimized_route: the set of routes the three      *)
(* random shuffles can produce for one input list                          *)
(***************************************************************************)
TakeFirst(tasks, name) ==
    IF name \in Range(tasks) THEN <<name>> ELSE <<>>

\* variant: every occurrence of the name leaves the remaining tasks
DropFirst_every_occurrence(tasks, name) ==
    SelectSeq(tasks, LAMBDA t : t # name)

DropFirst(tasks, name) ==
    IF name \in Range(tasks) THEN ListRemove(tasks, name) ELSE tasks

\* variant: the faucets are not pulled out of the remaining tasks
create_optimized_route_no_faucets(tasks) ==
    IF tasks = <<>> THEN {<<>>}
    ELSE
      LET r1   == TakeFirst(tasks, "full_registration")
          rem1 == DropFirst(tasks, "full_registration")
          r2   == TakeFirst(rem1, "connect_wallet")
          rem2 == DropFirst(rem1, "connect_wallet")
          social_tasks == Filter(rem2, social_connections)
          rem3 == RemoveEach(rem2, social_tasks)
          r4   == TakeFirst(rem3, "full_faucets")
          rem4 == DropFirst(rem3, "full_faucets")
          statistics_task == TakeFirst(rem4, "statistics_account")
          rem6 == DropFirst(rem4, "statistics_account")
      IN  {r1 \o r2 \o s \o r4 \o rest \o statistics_task :
              s \in Shuffles(social_tasks),
              rest \in Shuffles(rem6)}

create_optimized_route(tasks) ==
    IF tasks = <<>> THEN {<<>>}
    ELSE
      LET r1   == TakeFirst(tasks, "full_registration")
          rem1 == DropFirst(tasks, "full_registration")
          r2   == TakeFirst(rem1, "connect_wallet")
          rem2 == DropFirst(rem1, "connect_wallet")
          social_tasks == Filter(rem2, social_connections)
          rem3 == RemoveEach(rem2, social_tasks)
          r4   == TakeFirst(rem3, "full_faucets")
          rem4 == DropFirst(rem3, "full_faucets")
          faucets == Filter(rem4, faucet_list)
          rem5 == RemoveEach(rem4, faucets)
          statistics_task == TakeFirst(rem5, "statistics_account")
          rem6 == DropFirst(rem5, "statistics_account")
      IN  {r1 \o r2 \o s \o r4 \o f \o rest \o statistics_task :
              s \in Shuffles(social_tasks),
              f \in Shuffles(faucets),
              rest \in Shuffles(rem6)}

(***************************************************************************)
(* RouteOptimizer.validate_route: the loop over the route                  *)
(***************************************************************************)
RECURSIVE validate_loop(_, _)
validate_loop(todo, valid_tasks) ==
    IF todo = <<>> THEN valid_tasks
    ELSE IF Head(todo) \in available_functions
         THEN validate_loop(Tail(todo), Append(valid_tasks, Head(todo)))
         ELSE validate_loop(Tail(todo), valid_tasks)

\* variant: the loop ends at the first task without a handler
RECURSIVE validate_loop_break(_, _)
validate_loop_break(todo, valid_tasks) ==
    IF todo = <<>> THEN valid_tasks
    ELSE IF Head(todo) \in available_functions
         THEN validate_loop_break(Tail(todo), Append(valid_tasks, Head(todo)))
         ELSE valid_tasks

validate_route_break(r) == validate_loop_break(r, <<>>)

validate_route(r) == validate_loop(r, <<>>)

(***************************************************************************)
(* Dictionaries (Python dict): functions over the set of present keys      *)
(***************************************************************************)
EmptyDict == <<>>

DictSet(d, k, v) ==
    [x \in (DOMAIN d) \cup {k} |-> IF x = k THEN v ELSE d[x]]

(***************************************************************************)
(* What a registered handler can do when the route executor awaits it:     *)
(* return a (success, message) pair, return something that is not a pair,  *)
(* or raise.  "ok" tells whether the module did its job.                   *)
(***************************************************************************)
ReturnedPair(success, message) ==
    [kind |-> "pair", ok |-> success, text |-> message]

ReturnedStr(message) ==
    [kind |-> "str", ok |-> TRUE, text |-> message]

Raised(message) ==
    [kind |-> "raise", ok |-> FALSE, text |-> message]

\* run_statistics_account returns the value of get_statistics, the formatted
\* statistics text, when the profile request succeeds
StatisticsBehaviours ==
    {ReturnedStr("Account statistics"),
     ReturnedPair(FALSE, "Error Account statistics: timeout"),
     Raised("timeout")}

PairBehaviours ==
    {ReturnedPair(TRUE, "Successfully"),
     ReturnedPair(FALSE, "Failed after 3 attempts"),
     Raised("timeout")}

TaskBehaviours(task_name) ==
    IF task_name = "statistics_account" THEN StatisticsBehaviours
    ELSE PairBehaviours

(***************************************************************************)
(* TaskExecutor.execute_single_task                                        *)
(***************************************************************************)
execute_single_task(behaviour) ==
    CASE behaviour.kind = "pair" ->
           [success |-> behaviour.ok, message |-> behaviour.text]
      [] behaviour.kind = "str" ->
           \* success, message = <str>: ValueError, caught by except Exception
           [success |-> FALSE,
            message |-> "Error: too many values to unpack (expected 2)"]
      [] behaviour.kind = "raise" ->
           [success |-> FALSE, message |-> "Error: " \o behaviour.text]

(***************************************************************************)
(* RouteManager.execute_route as a function of the handlers' behaviours    *)
(***************************************************************************)
RECURSIVE execute_route_loop(_, _, _)
execute_route_loop(todo, behaviours, acc) ==
    IF todo = <<>> THEN acc
    ELSE execute_route_loop(Tail(todo), Tail(behaviours),
             DictSet(acc, Head(todo), execute_single_task(Head(behaviours))))

execute_route(r, behaviours) == execute_route_loop(r, behaviours, EmptyDict)

\* the behaviours the handlers of a route can show, one per route entry
RouteBehaviours(r) ==
    {bs \in [1..Len(r) -> StatisticsBehaviours \cup PairBehaviours] :
        \A i \in 1..Len(r) : bs[i] \in TaskBehaviours(r[i])}

(***************************************************************************)
(* RouteStatistics.calculate_stats                                         *)
(***************************************************************************)
\* f"{success_rate:.1f}": one decimal, from the exact quotient
FormatRate(success_count, total_count) ==
    LET tenths == IF total_count = 0 THEN 0
                  ELSE (2000 * success_count + total_count) \div (2 * total_count)
    IN  ToString(tenths \div 10) \o "." \o ToString(tenths % 10)

calculate_stats(res) ==
    LET success_count == Cardinality({t \in DOMAIN res : res[t].success})
        total_count == Cardinality(DOMAIN res)
    IN  [success_count |-> success_count,
         total_count |-> total_count,
         message |-> "Completed: " \o ToString(success_count) \o "/"
                     \o ToString(total_count) \o " ("
                     \o FormatRate(success_count, total_count) \o "%)"]

\* an aggregator whose overall status is the status of the last result
add_execution_result_last_status(er, wallet_address, is_successful, status_message, module_name) ==
    LET account_result ==
            IF wallet_address \in DOMAIN er THEN er[wallet_address]
            ELSE [overall_success |-> is_successful,
                  summary_message |-> status_message,
                  module_results |-> EmptyDict]
    IN  DictSet(er, wallet_address,
                [account_result EXCEPT
                    !.module_results =
                        DictSet(account_result.module_results, module_name,
                                [is_successful |-> is_successful,
                                 status_message |-> status_message]),
                    !.overall_success = is_successful])

(***************************************************************************)
(* TelegramReporter.add_execution_result (src/utils/telegram_reporter.py)  *)
(***************************************************************************)
add_execution_result(er, wallet_address, is_successful, status_message, module_name) ==
    LET account_result ==
            IF wallet_address \in DOMAIN er THEN er[wallet_address]
            ELSE [overall_success |-> is_successful,
                  summary_message |-> status_message,
                  module_results |-> EmptyDict]
        module_results ==
            DictSet(account_result.module_results, module_name,
                    [is_successful |-> is_successful,
                     status_message |-> status_message])
    IN  DictSet(er, wallet_address,
                [account_result EXCEPT
                    !.module_results = module_results,
                    !.overall_success =
                        \A m \in DOMAIN module_results :
                            module_results[m].is_successful])

(***************************************************************************)
(* route_manager.TelegramReporter.send_report_if_available                 *)
(***************************************************************************)
\* "module_processor_reporter" in sys.modules: nothing in the repository
\* registers a module under that name
module_processor_reporter == FALSE

send_report_if_available(er, account, success_count, message) ==
    IF ~module_processor_reporter THEN er
    ELSE add_execution_result(er, account, success_count > 0, message, "auto_route")

(***************************************************************************)
(* Report sections of src/utils/telegram_reporter.py                       *)
(***************************************************************************)
\* GlobalStatisticsSection.generate_content
GlobalStatisticsSection(er) ==
    [successful_accounts |-> Cardinality({w \in DOMAIN er : er[w].overall_success}),
     total_accounts |-> Cardinality(DOMAIN er)]

\* ModuleStatisticsSection._calculate_module_statistics
calculate_module_statistics(er, module_name) ==
    LET recorded == {w \in DOMAIN er : module_name \in DOMAIN er[w].module_results}
        failed == {w \in recorded : ~er[w].module_results[module_name].is_successful}
        messages == {er[w].module_results[module_name].status_message : w \in failed}
    IN  [successful |-> Cardinality(recorded \ failed),
         total |-> Cardinality(recorded),
         errors |-> [m \in messages |->
                        Cardinality({w \in failed :
                            er[w].module_results[module_name].status_message = m})]]

\* ModuleStatisticsSection.generate_content: one entry per module name seen
ModuleStatisticsSection(er) ==
    LET all_modules == UNION {DOMAIN er[w].module_results : w \in DOMAIN er}
    IN  [m \in all_modules |-> calculate_module_statistics(er, m)]

\* ErrorSummarySection.generate_content: failure message -> occurrences
ErrorSummarySection(er) ==
    LET failures == {<<w, m>> \in UNION {{<<w, m>> : m \in DOMAIN er[w].module_results} :
                                          w \in DOMAIN er} :
                        ~er[w].module_results[m].is_successful}
        messages == {er[f[1]].module_results[f[2]].status_message : f \in failures}
    IN  [msg \in messages |->
            Cardinality({f \in failures :
                er[f[1]].module_results[f[2]].status_message = msg})]

NoReport == [sent |-> FALSE]

\* TelegramReporter._generate_report_content over the default sections
generate_report_content(current_module_name, er) ==
    [sent |-> TRUE,
     header |-> current_module_name,
     global |-> GlobalStatisticsSection(er),
     modules |-> ModuleStatisticsSection(er),
     errors |-> ErrorSummarySection(er)]

(***************************************************************************)
(* Helpers of module_processor.py                                          *)
(***************************************************************************)
\* ResultProcessor.process_module_result for a value the handler returned
process_module_result(result, module_name) ==
    IF result.kind = "pair"
    THEN [success |-> result.ok, message |-> result.text]
    ELSE \* not a tuple: success = bool(result), a non-empty text is truthy
         [success |-> TRUE, message |-> "Successfully"]

\* variant: the success counter moves, the processed counter does not
update_progress_success_only(p, success) ==
    [p EXCEPT !.success = IF success THEN @ + 1 ELSE @]

\* StatisticsManager.update_progress
update_progress(p, success) ==
    [p EXCEPT !.success = IF success THEN @ + 1 ELSE @,
              !.processed = @ + 1]

\* AccountProgress.increment
increment(p) == [p EXCEPT !.processed = @ + 1]

\* ModuleProcessor.initialize_module_processing: the progress counters
initialize_progress(p, roster_size) ==
    [processed |-> 0, success |-> 0, total |-> roster_size]

\* bot_loader.semaphore: a counting permit sized to the configured thread count
semaphore_value(thread_count) == thread_count

\* process_route seen from the orchestrator: the behaviours of the tasks of
\* the validated route decide the returned pair
process_route(r, behaviours) ==
    IF r = <<>> THEN ReturnedPair(FALSE, "Route is empty or unavailable")
    ELSE LET stats == calculate_stats(execute_route(r, behaviours))
         IN  ReturnedPair(stats.success_count > 0, stats.message)

(***************************************************************************)
(* process_route, step by step                                             *)
(***************************************************************************)
NoResult == [success |-> FALSE, message |-> ""]

\* process_route up to the call of execute_route: get_validated_route and
\* the empty-route return
ProcessRouteStart ==
    /\ rpc = "start"
    /\ \E built \in create_optimized_route(ROUTE_TASK) :
         LET validated_route == validate_route(built)
         IN  /\ initial_route' = built
             /\ route' = validated_route
             /\ excluded_count' = Len(built) - Len(validated_route)
             /\ IF validated_route = <<>>
                THEN /\ rpc' = "done"
                     /\ route_ret' = [success |-> FALSE,
                                      message |-> "Route is empty or unavailable"]
                ELSE /\ rpc' = "exec"
                     /\ UNCHANGED route_ret
    /\ idx' = 0
    /\ results' = EmptyDict
    /\ UNCHANGED <<ROUTE_TASK, calls, outcomes>>
    /\ UNCHANGED <<libVars, runVars, configVars, moduleVars>>

\* variant: execute_single_task lets the exception of a handler escape, so
\* that it ends execute_route and reaches the except clause of process_route
ExecuteSingleTaskNoCatch ==
    /\ rpc = "exec"
    /\ idx < Len(route)
    /\ LET task_name == route[idx + 1]
       IN  \E behaviour \in TaskBehaviours(task_name) :
             /\ calls' = Append(calls, task_name)
             /\ outcomes' = Append(outcomes, behaviour)
             /\ IF behaviour.kind = "pair"
                THEN /\ results' = DictSet(results, task_name,
                                           execute_single_task(behaviour))
                     /\ UNCHANGED <<rpc, route_ret>>
                ELSE /\ rpc' = "done"
                     /\ route_ret' = [success |-> FALSE,
                                      message |-> "Critical route error: "
                                                  \o behaviour.text]
                     /\ UNCHANGED results
    /\ idx' = idx + 1
    /\ UNCHANGED <<ROUTE_TASK, initial_route, route, excluded_count>>
    /\ UNCHANGED <<libVars, runVars, configVars, moduleVars>>

\* one iteration of the loop of execute_route: execute_single_task and the
\* store into results
ExecuteSingleTask ==
    /\ rpc = "exec"
    /\ idx < Len(route)
    /\ LET task_name == route[idx + 1]
       IN  \E behaviour \in TaskBehaviours(task_name) :
             /\ calls' = Append(calls, task_name)
             /\ outcomes' = Append(outcomes, behaviour)
             /\ results' = DictSet(results, task_name, execute_single_task(behaviour))
    /\ idx' = idx + 1
    /\ UNCHANGED <<ROUTE_TASK, initial_route, route, excluded_count, rpc, route_ret>>
    /\ UNCHANGED <<libVars, runVars, configVars, moduleVars>>

\* process_route after execute_route: calculate_stats, the report and the return
ProcessRouteFinish ==
    /\ rpc = "exec"
    /\ idx = Len(route)
    /\ LET stats == calculate_stats(results)
       IN  /\ execution_results' =
                 send_report_if_available(execution_results, 1,
                                          stats.success_count, stats.message)
           /\ route_ret' = [success |-> stats.success_count > 0,
                            message |-> stats.message]
    /\ rpc' = "done"
    /\ UNCHANGED <<ROUTE_TASK, initial_route, route, excluded_count, idx,
                   results, calls, outcomes>>
    /\ UNCHANGED <<libVars, runVars, configVars, orchVars, taskVars, progress, logVars>>

(***************************************************************************)
(* Values of the variables of a component that is not running              *)
(***************************************************************************)
RouteIdle ==
    /\ ROUTE_TASK = <<>>
    /\ initial_route = <<>>
    /\ route = <<>>
    /\ excluded_count = 0
    /\ rpc = "idle"
    /\ idx = 0
    /\ results = EmptyDict
    /\ calls = <<>>
    /\ outcomes = <<>>
    /\ route_ret = NoResult

ConfigIdle ==
    /\ accounts = 1
    /\ threads = 1
    /\ send_stats_to_telegram = FALSE
    /\ AUTO_ROUTE_REPEAT = FALSE

ModuleIdle ==
    /\ config_module = ""
    /\ opc = "idle"
    /\ runs = 0
    /\ cycle = 0
    /\ batch_size = 1
    /\ batch_i = 0
    /\ tpc = <<>>
    /\ hres = <<>>
    /\ hlog = <<>>
    /\ semaphore = 0
    /\ progress = [processed |-> 0, success |-> 0, total |-> 0]
    /\ execution_results = EmptyDict
    /\ reports_sent = 0
    /\ stats_logged = 0
    /\ sleeps_done = 0
    /\ last_report = NoReport

NoReturn == [kind |-> "none", ok |-> FALSE, text |-> ""]

\* no response received
NoAnswer == [code |-> -1, message |-> <<>>]

RunIdle ==
    /\ run_op = ""
    /\ run_pc = "idle"
    /\ attempt = 0
    /\ run_ret = NoReturn
    /\ run_log = <<>>
    /\ run_rec = NoResult
    /\ backend_answer = NoAnswer
    /\ run_history = <<>>

NoError == [type |-> "None", attempt |-> 0]

HttpIdle ==
    /\ validate_status = TRUE
    /\ max_retries = 0
    /\ http_pc = "idle"
    /\ http_attempt = 0
    /\ last_error = NoError
    /\ http_log = <<>>
    /\ backoff_sleeps = 0
    /\ http_ret = NoReturn

WalletIdle ==
    /\ rpc_urls = 1
    /\ current_rpc_index = 0
    /\ web3 = 1
    /\ wallet_pc = "idle"
    /\ current_attempt = 0
    /\ func_calls = 0
    /\ wallet_log = <<>>
    /\ wallet_ret = NoReturn

PairIdle ==
    /\ pair_table = <<>>
    /\ pair_pc = "idle"
    /\ pair_ret = NoReturn

CompIdle ==
    /\ comp_op = ""
    /\ comp_pc = "idle"
    /\ comp_step = 0
    /\ comp_results = <<>>
    /\ comp_outcomes = <<>>
    /\ comp_ret = NoReturn

NoArtifacts == [file |-> <<>>, sheet |-> <<>>]

NoArg == [column |-> "", token |-> ""]

QuarIdle ==
    /\ bad_tokens_file = [c \in {"Twitter Token", "Discord Token"} |-> <<>>]
    /\ worksheet = <<>>
    /\ excel_readable = TRUE
    /\ file_operation_lock = 0
    /\ quar_pc = <<>>
    /\ quar_arg = <<>>
    /\ bad_tokens = <<>>
    /\ token_saved = <<>>
    /\ token_removed = <<>>
    /\ quar_order = <<>>
    /\ quar_before = <<>>
    /\ quar_after = <<>>

LinkIdle ==
    /\ link_platform = ""
    /\ link_pc = "idle"
    /\ link_attempt = 0
    /\ link_log = <<>>
    /\ session_open = FALSE
    /\ sessions_opened = 0
    /\ bind_body = [json |-> FALSE, message |-> ""]
    /\ link_error = <<>>
    /\ link_ret = NoReturn

NoInput == [numeric |-> FALSE, value |-> 0]

MenuIdle ==
    /\ current_menu = ""
    /\ running = TRUE
    /\ should_exit = FALSE
    /\ selected_action = ""
    /\ menu_input = NoInput
    /\ menu_inputs = 0
    /\ builds = 0

AggIdle ==
    /\ agg_results = <<>>
    /\ agg_calls = <<>>

\* no outcome yet
NoOutcome == [ok |-> FALSE, kind |-> "none", hash |-> -1]

TxIdle ==
    /\ tx_call = "none"
    /\ tx_pc = "idle"
    /\ name_token_1 = ""
    /\ name_token_2 = ""
    /\ amount = 0
    /\ swap_attempt = 0
    /\ transaction = [nonce |-> 0, amount |-> 0]
    /\ tx_hash = -1
    /\ tx_depth = 0
    /\ tx_log = <<>>
    /\ send_ret = NoOutcome
    /\ tx_ret = NoOutcome

FriendsIdle ==
    /\ MAX_SEND_PHRS = 10000
    /\ friends_pc = "idle"
    /\ friends_attempt = 0
    /\ balance = 0
    /\ send_amount = -1
    /\ transfers = <<>>

SlipIdle ==
    /\ slippage = 5
    /\ slip_pc = "idle"
    /\ quoted = <<>>
    /\ amount_out_minimum = <<>>

CapIdle ==
    /\ cap_pc = "idle"
    /\ cap_attempt = 0
    /\ poll_attempt = 0
    /\ cap_log = <<>>
    /\ cap_ret = ""

NestIdle ==
    /\ nest_pc = "idle"
    /\ nest_tasks = <<>>
    /\ top_route = <<>>
    /\ call_stack = <<>>
    /\ handler_calls = <<>>

ResIdle ==
    /\ res_pc = "idle"
    /\ res_handler = ""
    /\ providers = <<>>
    /\ api_client = "none"
    /\ res_calls = 0
    /\ res_outcome = "none"

LibIdle ==
    /\ HttpIdle
    /\ WalletIdle
    /\ PairIdle
    /\ CompIdle
    /\ ResIdle
    /\ NestIdle
    /\ CapIdle
    /\ SlipIdle
    /\ FriendsIdle
    /\ TxIdle
    /\ AggIdle
    /\ MenuIdle
    /\ LinkIdle
    /\ QuarIdle

(***************************************************************************)
(* Route building: get_validated_route over every configured task list     *)
(***************************************************************************)
\* task names a configured list is drawn from: the names the route builder
\* treats specially, two ordinary ones and one without a handler
RouteTaskNames ==
    {"full_registration", "connect_wallet", "connect_twitter", "connect_discord",
     "full_faucets", "phrs_faucet", "zenith_faucet", "statistics_account",
     "daily_check_in", "send_to_friends", "swap_faroswap"}

RouteStart(task_lists) ==
    /\ ROUTE_TASK \in task_lists
    /\ initial_route = <<>>
    /\ route = <<>>
    /\ excluded_count = 0
    /\ rpc = "start"
    /\ idx = 0
    /\ results = EmptyDict
    /\ calls = <<>>
    /\ outcomes = <<>>
    /\ route_ret = NoResult

InitBuild ==
    /\ RouteStart(SeqsUpTo(RouteTaskNames, MaxRouteLen))
    /\ ConfigIdle
    /\ ModuleIdle
    /\ RunIdle
    /\ LibIdle

NextBuild == ProcessRouteStart

SpecBuild == InitBuild /\ [][NextBuild]_vars

(***************************************************************************)
(* Route execution: process_route for one account                          *)
(***************************************************************************)
ExecTaskNames ==
    {"daily_check_in", "full_faucets", "statistics_account", "swap_faroswap"}

InitRoute ==
    /\ RouteStart(SeqsUpTo(ExecTaskNames, MaxExecLen))
    /\ ConfigIdle
    /\ ModuleIdle
    /\ RunIdle
    /\ LibIdle

NextRoute ==
    \/ ProcessRouteStart
    \/ ExecuteSingleTask
    \/ ProcessRouteFinish

SpecRoute == InitRoute /\ [][NextRoute]_vars

(***************************************************************************)
(* The batch orchestrator: run_main_loop, process_module,                  *)
(* handle_auto_route_module, _process_accounts_in_batches and the          *)
(* process_single_account tasks                                            *)
(***************************************************************************)
Roster == 1..accounts

Min(a, b) == IF a < b THEN a ELSE b

\* batch = config.accounts[i:i + batch_size]
Batch == (batch_i + 1)..Min(batch_i + batch_size, accounts)

\* accounts inside the permit-guarded section of process_single_account
InSection == {a \in Roster : tpc[a] \in {"delay", "handler", "logged", "error_logged"}}

\* accounts whose task has passed its progress update
Counted == {a \in Roster : tpc[a] \in {"logged", "error_logged", "done"}}

MenuActions == {"daily_check_in", "statistics_account", "auto_route"}

NoTasks ==
    /\ tpc' = [a \in Roster |-> "idle"]
    /\ hres' = [a \in Roster |-> NoResult]
    /\ hlog' = [a \in Roster |-> <<>>]

\* ModuleProcessor.initialize_module_processing
InitializeModuleProcessing ==
    /\ progress' = initialize_progress(progress, accounts)
    /\ execution_results' = EmptyDict

\* run_main_loop: a menu selection, and process_module up to the first batch
\* (standard module) or handle_auto_route_module up to the first cycle
SelectModule ==
    /\ opc = "menu"
    /\ runs < MaxRuns
    /\ runs' = runs + 1
    /\ \E m \in MenuActions :
         /\ config_module' = m
         /\ IF m = "auto_route"
            THEN \E built \in create_optimized_route(ROUTE_TASK) :
                   /\ IF validate_route(built) = <<>> \/ "auto_route" \notin available_functions
                      THEN opc' = "report_last" /\ cycle' = 0
                      ELSE opc' = "cycle_start" /\ cycle' = 1
                   /\ UNCHANGED <<progress, execution_results>>
            ELSE /\ InitializeModuleProcessing
                 /\ opc' = "batch"
                 /\ cycle' = 0
    /\ batch_i' = 0
    /\ NoTasks
    /\ reports_sent' = 0
    /\ stats_logged' = 0
    /\ sleeps_done' = 0
    /\ last_report' = NoReport
    /\ UNCHANGED <<batch_size, semaphore>>
    /\ UNCHANGED <<libVars, runVars, routeVars, configVars>>

\* run_main_loop: the console reports an exit request
ExitRequested ==
    /\ opc = "menu"
    /\ opc' = "exited"
    /\ UNCHANGED <<config_module, runs, cycle, batch_size, batch_i>>
    /\ UNCHANGED <<libVars, runVars, routeVars, configVars, taskVars, progress, execution_results, logVars>>

\* handle_auto_route_module: the head of one cycle
StartCycle ==
    /\ opc = "cycle_start"
    /\ InitializeModuleProcessing
    /\ batch_i' = 0
    /\ NoTasks
    /\ opc' = "batch"
    /\ UNCHANGED <<config_module, runs, cycle, batch_size, semaphore>>
    /\ UNCHANGED <<libVars, runVars, routeVars, configVars, logVars>>

\* _process_accounts_in_batches: the tasks of the next batch are handed to gather
StartBatch ==
    /\ opc = "batch"
    /\ batch_i < accounts
    /\ tpc' = [a \in Roster |-> IF a \in Batch THEN "waiting" ELSE tpc[a]]
    /\ opc' = "gather"
    /\ UNCHANGED <<config_module, runs, cycle, batch_size, batch_i>>
    /\ UNCHANGED <<hres, hlog, semaphore>>
    /\ UNCHANGED <<libVars, runVars, routeVars, configVars, progress, execution_results, logVars>>

\* variant: the batch loop goes on without awaiting the tasks of the batch
GatherDoneNoAwait ==
    /\ opc = "gather"
    /\ batch_i' = batch_i + batch_size
    /\ opc' = "batch"
    /\ UNCHANGED <<config_module, runs, cycle, batch_size>>
    /\ UNCHANGED <<libVars, runVars, routeVars, configVars, taskVars, progress, execution_results, logVars>>

\* _process_accounts_in_batches: gather returns when every task of the batch ended
GatherDone ==
    /\ opc = "gather"
    /\ \A a \in Batch : tpc[a] = "done"
    /\ batch_i' = batch_i + batch_size
    /\ opc' = "batch"
    /\ UNCHANGED <<config_module, runs, cycle, batch_size>>
    /\ UNCHANGED <<libVars, runVars, routeVars, configVars, taskVars, progress, execution_results, logVars>>

\* _process_accounts_in_batches: the loop over the roster is over
BatchesDone ==
    /\ opc = "batch"
    /\ batch_i >= accounts
    /\ opc' = "report"
    /\ UNCHANGED <<config_module, runs, cycle, batch_size, batch_i>>
    /\ UNCHANGED <<libVars, runVars, routeVars, configVars, taskVars, progress, execution_results, logVars>>

\* variant: the task enters the section without taking a permit
AcquirePermitNoWait(a) ==
    /\ tpc[a] = "waiting"
    /\ semaphore' = semaphore - 1
    /\ tpc' = [tpc EXCEPT ![a] = "delay"]
    /\ UNCHANGED <<hres, hlog>>
    /\ UNCHANGED <<libVars, runVars, routeVars, configVars, orchVars, progress, execution_results, logVars>>

\* process_single_account: async with semaphore (entry)
AcquirePermit(a) ==
    /\ tpc[a] = "waiting"
    /\ semaphore > 0
    /\ semaphore' = semaphore - 1
    /\ tpc' = [tpc EXCEPT ![a] = "delay"]
    /\ UNCHANGED <<hres, hlog>>
    /\ UNCHANGED <<libVars, runVars, routeVars, configVars, orchVars, progress, execution_results, logVars>>

\* process_single_account: apply_start_delay is over, the handler is called
StartHandler(a) ==
    /\ tpc[a] = "delay"
    /\ tpc' = [tpc EXCEPT ![a] = "handler"]
    /\ UNCHANGED <<hres, hlog, semaphore>>
    /\ UNCHANGED <<libVars, runVars, routeVars, configVars, orchVars, progress, execution_results, logVars>>

\* what the handler of the selected module can return or raise, with the
\* per-task record of what it did
HandlerRuns(m) ==
    IF m = "auto_route"
    THEN UNION {
           LET r == validate_route(built)
           IN  {[result |-> process_route(r, bs),
                 log |-> [i \in 1..Len(r) |-> [task |-> r[i], behaviour |-> bs[i]]]] :
                    bs \in RouteBehaviours(r)} :
           built \in create_optimized_route(ROUTE_TASK)}
    ELSE {[result |-> b, log |-> <<[task |-> m, behaviour |-> b]>>] :
             b \in TaskBehaviours(m)}

\* process_single_account: the handler returned; process_module_result and
\* update_progress
HandlerReturns(a) ==
    /\ tpc[a] = "handler"
    /\ \E run \in HandlerRuns(config_module) :
         /\ run.result.kind # "raise"
         /\ LET r == process_module_result(run.result, config_module)
            IN  /\ hres' = [hres EXCEPT ![a] = r]
                /\ progress' = update_progress(progress, r.success)
         /\ hlog' = [hlog EXCEPT ![a] = run.log]
    /\ tpc' = [tpc EXCEPT ![a] = "logged"]
    /\ UNCHANGED semaphore
    /\ UNCHANGED <<libVars, runVars, routeVars, configVars, orchVars, execution_results, logVars>>

\* variant: the except clause does not count the account
HandlerRaisesNoCount(a) ==
    /\ tpc[a] = "handler"
    /\ \E run \in HandlerRuns(config_module) :
         /\ run.result.kind = "raise"
         /\ hres' = [hres EXCEPT ![a] = [success |-> FALSE, message |-> run.result.text]]
         /\ hlog' = [hlog EXCEPT ![a] = run.log]
    /\ tpc' = [tpc EXCEPT ![a] = "error_logged"]
    /\ UNCHANGED <<semaphore, progress>>
    /\ UNCHANGED <<libVars, runVars, routeVars, configVars, orchVars, execution_results, logVars>>

\* process_single_account: the handler raised; the except clause counts the
\* account and keeps str(e)
HandlerRaises(a) ==
    /\ tpc[a] = "handler"
    /\ \E run \in HandlerRuns(config_module) :
         /\ run.result.kind = "raise"
         /\ hres' = [hres EXCEPT ![a] = [success |-> FALSE, message |-> run.result.text]]
         /\ hlog' = [hlog EXCEPT ![a] = run.log]
    /\ progress' = increment(progress)
    /\ tpc' = [tpc EXCEPT ![a] = "error_logged"]
    /\ UNCHANGED semaphore
    /\ UNCHANGED <<libVars, runVars, routeVars, configVars, orchVars, execution_results, logVars>>

\* process_single_account: add_execution_result, return, release of the permit
RecordResult(a) ==
    /\ tpc[a] = "logged"
    /\ execution_results' =
          add_execution_result(execution_results, a, hres[a].success,
                               hres[a].message, config_module)
    /\ semaphore' = semaphore + 1
    /\ tpc' = [tpc EXCEPT ![a] = "done"]
    /\ UNCHANGED <<hres, hlog>>
    /\ UNCHANGED <<libVars, runVars, routeVars, configVars, orchVars, progress, logVars>>

\* process_single_account: the same at the end of the except clause
RecordError(a) ==
    /\ tpc[a] = "error_logged"
    /\ execution_results' =
          add_execution_result(execution_results, a, FALSE,
                               hres[a].message, config_module)
    /\ semaphore' = semaphore + 1
    /\ tpc' = [tpc EXCEPT ![a] = "done"]
    /\ UNCHANGED <<hres, hlog>>
    /\ UNCHANGED <<libVars, runVars, routeVars, configVars, orchVars, progress, logVars>>

\* finalize_module_execution: send_telegram_reports
SendTelegramReports ==
    /\ opc \in {"report", "report_last"}
    /\ IF send_stats_to_telegram /\ accounts > 0 /\ execution_results # EmptyDict
       THEN /\ reports_sent' = reports_sent + 1
            /\ last_report' = generate_report_content(config_module, execution_results)
       ELSE UNCHANGED <<reports_sent, last_report>>
    /\ opc' = IF opc = "report" THEN "stats" ELSE "stats_last"
    /\ UNCHANGED <<config_module, runs, cycle, batch_size, batch_i>>
    /\ UNCHANGED <<stats_logged, sleeps_done>>
    /\ UNCHANGED <<libVars, runVars, routeVars, configVars, taskVars, progress, execution_results>>

\* finalize_module_execution: log_final_statistics, and what follows it in
\* process_module or in the loop of handle_auto_route_module
LogFinalStatistics ==
    /\ opc \in {"stats", "stats_last"}
    /\ stats_logged' = IF progress.total = 0 THEN stats_logged ELSE stats_logged + 1
    /\ opc' = IF opc = "stats_last" \/ config_module # "auto_route" THEN "menu"
              ELSE IF ~AUTO_ROUTE_REPEAT THEN "report_last"
              ELSE "sleep"
    /\ UNCHANGED <<config_module, runs, cycle, batch_size, batch_i>>
    /\ UNCHANGED <<reports_sent, sleeps_done, last_report>>
    /\ UNCHANGED <<libVars, runVars, routeVars, configVars, taskVars, progress, execution_results>>

\* handle_auto_route_module: the sleep between two cycles and cycle += 1
CycleSleep ==
    /\ opc = "sleep"
    /\ cycle < MaxCycles
    /\ sleeps_done' = sleeps_done + 1
    /\ cycle' = cycle + 1
    /\ opc' = "cycle_start"
    /\ UNCHANGED <<config_module, runs, batch_size, batch_i>>
    /\ UNCHANGED <<reports_sent, stats_logged, last_report>>
    /\ UNCHANGED <<libVars, runVars, routeVars, configVars, taskVars, progress, execution_results>>

\* route lists configured for the orchestrator runs
ModuleRouteTasks == {<<"daily_check_in", "full_faucets">>, <<"swap_faroswap">>}

InitModule ==
    /\ accounts \in 0..MaxAccounts
    /\ threads \in 1..MaxThreads
    /\ send_stats_to_telegram \in BOOLEAN
    /\ AUTO_ROUTE_REPEAT \in BOOLEAN
    /\ RouteStart(ModuleRouteTasks)
    /\ config_module = ""
    /\ opc = "menu"
    /\ runs = 0
    /\ cycle = 0
    \* batch_size = getattr(config, 'threads', len(config.accounts))
    /\ batch_size \in {threads, accounts}
    /\ batch_i = 0
    /\ tpc = [a \in Roster |-> "idle"]
    /\ hres = [a \in Roster |-> NoResult]
    /\ hlog = [a \in Roster |-> <<>>]
    /\ semaphore = semaphore_value(threads)
    /\ progress = [processed |-> 0, success |-> 0, total |-> accounts]
    /\ execution_results = EmptyDict
    /\ reports_sent = 0
    /\ stats_logged = 0
    /\ sleeps_done = 0
    /\ last_report = NoReport
    /\ RunIdle
    /\ LibIdle

NextModule ==
    \/ SelectModule
    \/ ExitRequested
    \/ StartCycle
    \/ StartBatch
    \/ GatherDone
    \/ BatchesDone
    \/ \E a \in Roster : AcquirePermit(a)
    \/ \E a \in Roster : StartHandler(a)
    \/ \E a \in Roster : HandlerReturns(a)
    \/ \E a \in Roster : HandlerRaises(a)
    \/ \E a \in Roster : RecordResult(a)
    \/ \E a \in Roster : RecordError(a)
    \/ SendTelegramReports
    \/ LogFinalStatistics
    \/ CycleSleep

SpecModule == InitModule /\ [][NextModule]_vars

(***************************************************************************)
(* The run operations of the task modules                                  *)
(***************************************************************************)
MAX_RETRY_ATTEMPTS == 3

RunOperations ==
    {"run_daily_check_in", "official_faucet.run_faucet", "zenith_faucet.run_faucet",
     "run_twitter_tasks", "run_send_to_friends", "run_statistics_account",
     "run_mint_pharos_badge", "run_mint_pharos_nft", "run_swap"}

TASK_MSG(op) ==
    CASE op = "run_daily_check_in" -> "Daily Check-in"
      [] op = "official_faucet.run_faucet" -> "Faucet $PHRS"
      [] op = "zenith_faucet.run_faucet" -> "Stablecoins faucet"
      [] op = "run_twitter_tasks" -> "Fulfilling twitter tasks on Pharos Network site"
      [] op = "run_send_to_friends" -> "\"Send To Friends\" task"
      [] op = "run_statistics_account" -> "Account statistics"
      [] op = "run_mint_pharos_badge" -> "Mint Pharos Testnet Badge"
      [] op = "run_mint_pharos_nft" -> "Mint Pharos Testnet Nft"
      [] op = "run_swap" -> "Swap tokens on Zenith Finance"

\* run operations that start with process_connect_wallet
connects_wallet ==
    {"run_daily_check_in", "official_faucet.run_faucet", "run_twitter_tasks",
     "run_send_to_friends", "run_statistics_account"}

\* run operations made of one retry loop
retry_loop ==
    RunOperations \ {"run_twitter_tasks", "run_swap"}

\* str(e) of a failing HTTP or RPC call
RunErrors == {"timeout", "connection refused"}

failed_after(msg) ==
    "Failed " \o msg \o " after " \o ToString(MAX_RETRY_ATTEMPTS) \o " attempts"

Returns(result) ==
    /\ run_ret' = result
    /\ run_pc' = IF result.kind = "raise" THEN "raised" ELSE "returned"

\* the first step of a run operation
first_step(op) ==
    CASE op \in connects_wallet -> "process_connect_wallet"
      [] op = "zenith_faucet.run_faucet" -> "captcha_keys"
      [] op = "run_swap" -> "check_basic_config"
      [] OTHER -> "attempt"

\* a handler of task_manager.PharosBot calls the run operation of its module
RunStart ==
    /\ run_pc = "idle"
    /\ \E op \in RunOperations :
         /\ run_op' = op
         /\ run_pc' = first_step(op)
    /\ UNCHANGED <<attempt, run_ret, run_log, run_rec, backend_answer, run_history>>
    /\ UNCHANGED <<routeVars, configVars, moduleVars, libVars>>

\* result, self.jwt_token = await self.process_connect_wallet(self.account):
\* run_connect_wallet returns a pair on every path
ProcessConnectWallet ==
    /\ run_pc = "process_connect_wallet"
    /\ \/ /\ run_pc' = IF run_op = "run_twitter_tasks" THEN "get_task_info" ELSE "attempt"
          /\ UNCHANGED run_ret
       \/ \E e \in RunErrors :
            Returns(ReturnedPair(FALSE, "Error Connect wallet on Pharos Network site: " \o e))
       \/ Returns(ReturnedPair(FALSE, failed_after("Connect wallet on Pharos Network site")))
    /\ UNCHANGED <<run_op, attempt, run_log, run_rec, backend_answer, run_history>>
    /\ UNCHANGED <<routeVars, configVars, moduleVars, libVars>>

\* zenith run_faucet: the captcha keys of the configuration
CaptchaKeys ==
    /\ run_pc = "captcha_keys"
    /\ \/ run_pc' = "attempt" /\ UNCHANGED run_ret
       \/ Returns(ReturnedPair(FALSE, "No valid API key was found"))
    /\ UNCHANGED <<run_op, attempt, run_log, run_rec, backend_answer, run_history>>
    /\ UNCHANGED <<routeVars, configVars, moduleVars, libVars>>

\* run_swap: status, msg = await self.check_basic_config(); human_balance is
\* awaited outside any try and re-raises an error that is not RPC-related
CheckBasicConfig ==
    /\ run_pc = "check_basic_config"
    /\ \/ \E e \in {"execution reverted", "insufficient funds"} :
            Returns(Raised(e))
       \/ Returns(ReturnedPair(FALSE, "No $PHRS tokens in wallet"))
       \/ Returns(ReturnedPair(FALSE, "Configuration validation failed: pair"))
       \/ run_pc' = "pairs" /\ UNCHANGED run_ret
    /\ UNCHANGED <<run_op, attempt, run_log, run_rec, backend_answer, run_history>>
    /\ UNCHANGED <<routeVars, configVars, moduleVars, libVars>>

\* run_swap: the loop over the configured pairs (one pair), each pair inside
\* try/except, and the summary
SwapPairs ==
    /\ run_pc = "pairs"
    /\ \/ /\ Returns(ReturnedPair(TRUE,
                "Completed 1/1 swaps. Failed: 0 All swaps completed successfully"))
          /\ UNCHANGED run_log
       \/ \E e \in RunErrors :
            LET error == "Unexpected error in pair #1: " \o e
            IN  /\ Returns(ReturnedPair(FALSE,
                      "Completed 0/1 swaps. Failed: 1\nErrors:\n" \o error))
                /\ run_log' = Append(run_log, error)
    /\ UNCHANGED <<run_op, attempt, run_rec, backend_answer, run_history>>
    /\ UNCHANGED <<routeVars, configVars, moduleVars, libVars>>

\* run_twitter_tasks: initial_result, initial_tasks = await self.get_task_info();
\* get_tasks sends its request outside any try
GetTaskInfo ==
    /\ run_pc = "get_task_info"
    /\ \/ \E e \in RunErrors : Returns(Raised(e))
       \/ Returns(ReturnedPair(TRUE, "All Twitter tasks successfully completed"))
       \/ run_pc' = "verify_tasks" /\ UNCHANGED run_ret
    /\ UNCHANGED <<run_op, attempt, run_log, run_rec, backend_answer, run_history>>
    /\ UNCHANGED <<routeVars, configVars, moduleVars, libVars>>

\* run_twitter_tasks: the loop over the open tasks (one task), every
\* verification inside try/except, and the final message
VerifyTasks ==
    /\ run_pc = "verify_tasks"
    /\ \/ /\ Returns(ReturnedPair(TRUE, "All Twitter tasks completed successfully!"))
          /\ UNCHANGED run_log
       \/ /\ Returns(ReturnedPair(FALSE,
                "You need to link a Twitter account on Pharos Network site"))
          /\ UNCHANGED run_log
       \/ \E e \in RunErrors :
            /\ Returns(ReturnedPair(FALSE, "Failed to complete any Twitter tasks!"))
            /\ run_log' = Append(run_log,
                  "Error verifying task Follow Pharos on Twitter: " \o e)
    /\ UNCHANGED <<run_op, attempt, run_rec, backend_answer, run_history>>
    /\ UNCHANGED <<routeVars, configVars, moduleVars, libVars>>

\* run operations whose attempt maps the answer of a backend
answers_backend ==
    {"run_daily_check_in", "official_faucet.run_faucet", "zenith_faucet.run_faucet"}

\* A server message is the sequence of its fragments: == compares the whole
\* message, and a substring test looks for the fragment.
ALREADY_SIGNED_IN == "already signed in today"
FAUCET_DID_NOT_COOLDOWN == "faucet did not cooldown"
USER_HAS_NOT_BOUND_X == "user has not bound X account"
HAS_ALREADY_GOT_TOKEN == "has already got token today"

is_in(needle, message) ==
    \E i \in 1..Len(message) : message[i] = needle

\* response['data'] of POST /sign/in, POST /faucet/daily and POST /v1/faucet
\* (the Zenith router answers with a message and no code)
BackendAnswers(op) ==
    CASE op = "run_daily_check_in" ->
           [code : {0, 1, 2}, message : {<<ALREADY_SIGNED_IN>>, <<"sign in failed">>}]
      [] op = "official_faucet.run_faucet" ->
           [code : {0, 1, 2},
            message : {<<FAUCET_DID_NOT_COOLDOWN>>, <<USER_HAS_NOT_BOUND_X>>, <<"busy">>}]
      [] op = "zenith_faucet.run_faucet" ->
           [code : {0},
            message : {<<"ok">>, <<HAS_ALREADY_GOT_TOKEN>>,
                       <<"0xabc ", HAS_ALREADY_GOT_TOKEN>>, <<"faucet is empty">>}]

\* DailyCheckIn.check_in: (status, result) for an answer
check_in(answer) ==
    CASE answer.code = 0 -> [status |-> TRUE, result |-> <<"True">>]
      [] answer.code = 1 -> [status |-> FALSE, result |-> answer.message]
      [] OTHER -> [status |-> FALSE, result |-> <<"Unknown error: ">> \o answer.message]

\* OfficialFaucet.faucet: (status, result) for an answer
faucet(answer) ==
    CASE answer.code = 0 -> [status |-> TRUE, result |-> <<"True">>]
      [] answer.code = 1 -> [status |-> FALSE, result |-> answer.message]
      [] OTHER -> [status |-> FALSE, result |-> <<"Unknown error: ">> \o answer.message]

\* ZenithFaucet.get_tokens: (status, result) for an answer
get_tokens(answer) ==
    IF answer.message = <<"ok">>
    THEN [status |-> TRUE, result |-> <<"0xhash">>]
    ELSE [status |-> FALSE, result |-> answer.message]

\* the try block of one attempt without the already-satisfied shortcut
try_block_no_shortcut(op, answer) ==
    LET got == CASE op = "run_daily_check_in" -> check_in(answer)
                 [] op = "official_faucet.run_faucet" -> faucet(answer)
                 [] op = "zenith_faucet.run_faucet" -> get_tokens(answer)
    IN  CASE got.status -> ReturnedPair(TRUE, "Successfully " \o TASK_MSG(op))
          [] op = "official_faucet.run_faucet" /\ ~got.status
               /\ got.result = <<USER_HAS_NOT_BOUND_X>> ->
               ReturnedPair(FALSE, "Need to link the twitter account before " \o TASK_MSG(op))
          [] OTHER -> NoReturn

\* the try block of one attempt of the three operations: what it returns for
\* the answer of the backend, NoReturn when it ends with the warning
try_block(op, answer) ==
    LET got == CASE op = "run_daily_check_in" -> check_in(answer)
                 [] op = "official_faucet.run_faucet" -> faucet(answer)
                 [] op = "zenith_faucet.run_faucet" -> get_tokens(answer)
    IN  CASE got.status -> ReturnedPair(TRUE, "Successfully " \o TASK_MSG(op))
          [] op = "run_daily_check_in" /\ ~got.status
               /\ got.result = <<ALREADY_SIGNED_IN>> ->
               ReturnedPair(TRUE, "It hasn't even been 24 hours since the last " \o TASK_MSG(op))
          [] op = "official_faucet.run_faucet" /\ ~got.status
               /\ got.result = <<FAUCET_DID_NOT_COOLDOWN>> ->
               ReturnedPair(TRUE, "It hasn't been 24 hours since the last " \o TASK_MSG(op))
          [] op = "official_faucet.run_faucet" /\ ~got.status
               /\ got.result = <<USER_HAS_NOT_BOUND_X>> ->
               ReturnedPair(FALSE, "Need to link the twitter account before " \o TASK_MSG(op))
          [] op = "zenith_faucet.run_faucet" /\ ~got.status
               /\ is_in(HAS_ALREADY_GOT_TOKEN, got.result) ->
               ReturnedPair(TRUE, "It hasn't been 24 hours since the last " \o TASK_MSG(op))
          [] OTHER -> NoReturn

\* what the try block of one attempt of the other operations can return
AttemptReturns(op) ==
    CASE op = "run_send_to_friends" ->
           {ReturnedPair(FALSE, "You do not have tokens in your balance"),
            ReturnedPair(TRUE, "\"Send To Friends\" task completed successfully")}
      [] op = "run_statistics_account" ->
           \* return await self.get_statistics(): the statistics text
           {ReturnedStr("Account statistics")}
      [] op = "run_mint_pharos_badge" ->
           {ReturnedPair(FALSE, "You do not have enough tokens in your balance"),
            ReturnedPair(TRUE, "You've previously claimed Pharos Testnet Badge"),
            ReturnedPair(TRUE, "0xhash")}
      [] op = "run_mint_pharos_nft" ->
           {ReturnedPair(TRUE, "You've previously claimed Pharos Testnet Nft"),
            ReturnedPair(TRUE, "0xhash")}

\* the try block can end without returning, and the loop goes on
falls_through(op) == op # "run_statistics_account"

\* one pass of for attempt in range(MAX_RETRY_ATTEMPTS): try / except Exception
Attempt ==
    /\ run_pc = "attempt"
    /\ run_op \in retry_loop
    /\ attempt < MAX_RETRY_ATTEMPTS
    /\ \/ /\ run_op \in answers_backend
          /\ \E answer \in BackendAnswers(run_op) :
               /\ backend_answer' = answer
               /\ IF try_block(run_op, answer) # NoReturn
                  THEN /\ Returns(try_block(run_op, answer))
                       /\ UNCHANGED <<attempt, run_log>>
                  ELSE /\ attempt' = attempt + 1
                       /\ run_log' = Append(run_log, "warning")
                       /\ UNCHANGED <<run_pc, run_ret>>
       \/ /\ run_op \notin answers_backend
          /\ \E r \in AttemptReturns(run_op) : Returns(r)
          /\ UNCHANGED <<attempt, run_log, backend_answer>>
       \/ /\ run_op \notin answers_backend
          /\ falls_through(run_op)
          /\ attempt' = attempt + 1
          /\ run_log' = Append(run_log, "warning")
          /\ UNCHANGED <<run_pc, run_ret, backend_answer>>
       \/ \E e \in RunErrors :
            LET error_msg == "Error " \o TASK_MSG(run_op) \o ": " \o e
            IN  /\ run_log' = Append(run_log, error_msg)
                /\ backend_answer' = NoAnswer
                /\ IF attempt = MAX_RETRY_ATTEMPTS - 1
                   THEN Returns(ReturnedPair(FALSE, error_msg)) /\ UNCHANGED attempt
                   ELSE attempt' = attempt + 1 /\ UNCHANGED <<run_pc, run_ret>>
    /\ UNCHANGED <<run_op, run_rec, run_history>>
    /\ UNCHANGED <<routeVars, configVars, moduleVars, libVars>>

\* the return after the loop
AttemptsExhausted ==
    /\ run_pc = "attempt"
    /\ run_op \in retry_loop
    /\ attempt = MAX_RETRY_ATTEMPTS
    /\ Returns(ReturnedPair(FALSE, failed_after(TASK_MSG(run_op))))
    /\ UNCHANGED <<run_op, attempt, run_log, run_rec, backend_answer, run_history>>
    /\ UNCHANGED <<routeVars, configVars, moduleVars, libVars>>

\* TaskExecutor.execute_single_task around the handler of the run operation
RecordTaskResult ==
    /\ run_pc \in {"returned", "raised"}
    /\ run_rec' = execute_single_task(run_ret)
    /\ run_pc' = "recorded"
    /\ run_history' = Append(run_history, [answer |-> backend_answer, ret |-> run_ret])
    /\ UNCHANGED <<run_op, attempt, run_ret, run_log, backend_answer>>
    /\ UNCHANGED <<routeVars, configVars, moduleVars, libVars>>

\* the next cycle of the module calls the handler of the same operation again
RunAgain ==
    /\ run_pc = "recorded"
    /\ Len(run_history) < MaxRunCalls
    /\ run_pc' = first_step(run_op)
    /\ attempt' = 0
    /\ run_ret' = NoReturn
    /\ run_log' = <<>>
    /\ run_rec' = NoResult
    /\ backend_answer' = NoAnswer
    /\ UNCHANGED <<run_op, run_history>>
    /\ UNCHANGED <<routeVars, configVars, moduleVars, libVars>>

InitRun ==
    /\ RouteIdle
    /\ ConfigIdle
    /\ ModuleIdle
    /\ RunIdle
    /\ LibIdle

NextRun ==
    \/ RunStart
    \/ ProcessConnectWallet
    \/ CaptchaKeys
    \/ CheckBasicConfig
    \/ SwapPairs
    \/ GetTaskInfo
    \/ VerifyTasks
    \/ Attempt
    \/ AttemptsExhausted
    \/ RecordTaskResult
    \/ RunAgain

SpecRun == InitRun /\ [][NextRun]_vars

(***************************************************************************)
(* HTTPClient.send_request                                                 *)
(***************************************************************************)
\* status codes a target answers with
StatusCodes == {200, 302, 404, 429, 500, 503}

\* exceptions _execute_single_request lets out
TransportErrors ==
    {"ClientSSLError", "ClientConnectorError", "TimeoutError",
     "ServerDisconnectedError", "ClientPayloadError", "ValueError"}

Answers(status_code) == [kind |-> "status", status_code |-> status_code, exception |-> "None"]

Fails(exception) == [kind |-> "error", status_code |-> 0, exception |-> exception]

\* what the target does at one request
TargetOutcomes ==
    {Answers(c) : c \in StatusCodes} \cup {Fails(e) : e \in TransportErrors}

\* HTTPClient._handle_http_status: the exception raised for a status code
handle_http_status(status_code) ==
    IF status_code = 429 THEN "APIRateLimitError"
    ELSE IF 400 <= status_code /\ status_code < 500 THEN "APIClientSideError"
    ELSE IF status_code >= 500 THEN "APIServerSideError"
    ELSE "None"

\* HTTPClient.RETRYABLE_ERRORS, by class (subclasses included)
RETRYABLE_ERRORS ==
    {"APIServerSideError", "APIRateLimitError", "APITimeoutError", "APISSLError",
     "ClientPayloadError", "ClientConnectorError", "ClientSSLError",
     "ServerDisconnectedError", "TimeoutError"}

\* variant: the clause that re-raises rate-limit and client-side errors is
\* missing, so they reach the clauses below it
except_clause_no_reraise(exception) ==
    CASE exception \in {"ClientSSLError"} ->
           [act |-> "capture", type |-> "APISSLError"]
      [] exception \in {"ClientConnectorError"} ->
           [act |-> "capture", type |-> "APIConnectionError"]
      [] exception \in {"TimeoutError"} ->
           [act |-> "capture", type |-> "APITimeoutError"]
      [] exception \in {"ServerDisconnectedError"} ->
           [act |-> "capture", type |-> "APIConnectionError"]
      [] OTHER ->
           IF exception \in RETRYABLE_ERRORS
           THEN [act |-> "capture", type |-> exception]
           ELSE [act |-> "raise", type |-> "APIClientError"]

\* the except clauses of send_request, in their order
except_clause(exception) ==
    CASE exception \in {"ClientSSLError"} ->
           [act |-> "capture", type |-> "APISSLError"]
      [] exception \in {"ClientConnectorError"} ->
           [act |-> "capture", type |-> "APIConnectionError"]
      [] exception \in {"TimeoutError"} ->
           [act |-> "capture", type |-> "APITimeoutError"]
      [] exception \in {"ServerDisconnectedError"} ->
           [act |-> "capture", type |-> "APIConnectionError"]
      [] exception \in {"APIRateLimitError", "APIClientSideError"} ->
           [act |-> "raise", type |-> exception]
      [] OTHER ->
           IF exception \in RETRYABLE_ERRORS
           THEN [act |-> "capture", type |-> exception]
           ELSE [act |-> "raise", type |-> "APIClientError"]

\* what the try block of one attempt raises for an outcome of the target
raised_in_try(outcome, validate) ==
    IF outcome.kind = "error" THEN outcome.exception
    ELSE IF validate THEN handle_http_status(outcome.status_code)
    ELSE "None"

\* variant: an error already captured is kept
capture_keep_first(previous, error) ==
    IF previous.type = "None" THEN error ELSE previous

\* last_error = <the error of this attempt>
capture(previous, error) == error

\* send_request is called on an open session
SendRequest ==
    /\ http_pc = "idle"
    /\ validate_status' \in BOOLEAN
    /\ max_retries' \in 0..MaxHttpRetries
    /\ http_attempt' = 1
    /\ http_pc' = IF max_retries' >= 1 THEN "request" ELSE "exhausted"
    /\ UNCHANGED <<last_error, http_log, backoff_sleeps, http_ret>>
    /\ UNCHANGED exceptHttp

\* one pass of for attempt in range(1, max_retries + 1), up to the sleep
ExecuteSingleRequest ==
    /\ http_pc = "request"
    /\ \E outcome \in TargetOutcomes :
         /\ http_log' = Append(http_log, outcome)
         /\ LET exception == raised_in_try(outcome, validate_status)
                clause == except_clause(exception)
            IN  IF exception = "None"
                THEN /\ http_ret' = [kind |-> "result", status_code |-> outcome.status_code]
                     /\ http_pc' = "done"
                     /\ UNCHANGED last_error
                ELSE IF clause.act = "raise"
                THEN /\ http_ret' = [kind |-> "raise",
                                     error |-> [type |-> clause.type,
                                                attempt |-> http_attempt]]
                     /\ http_pc' = "done"
                     /\ UNCHANGED last_error
                ELSE /\ last_error' = capture(last_error,
                                              [type |-> clause.type,
                                               attempt |-> http_attempt])
                     /\ http_pc' = IF http_attempt < max_retries
                                   THEN "sleep" ELSE "exhausted"
                     /\ UNCHANGED http_ret
    /\ UNCHANGED <<validate_status, max_retries, http_attempt, backoff_sleeps>>
    /\ UNCHANGED exceptHttp

\* await asyncio.sleep(delay), then the next attempt
RetrySleep ==
    /\ http_pc = "sleep"
    /\ backoff_sleeps' = backoff_sleeps + 1
    /\ http_attempt' = http_attempt + 1
    /\ http_pc' = "request"
    /\ UNCHANGED <<validate_status, max_retries, last_error, http_log, http_ret>>
    /\ UNCHANGED exceptHttp

\* after the loop: raise last_error, or the generic server-side error
RaiseLastError ==
    /\ http_pc = "exhausted"
    /\ http_ret' = [kind |-> "raise",
                    error |-> IF last_error.type # "None" THEN last_error
                              ELSE [type |-> "APIServerSideError", attempt |-> 0]]
    /\ http_pc' = "done"
    /\ UNCHANGED <<validate_status, max_retries, http_attempt, last_error,
                   http_log, backoff_sleeps>>
    /\ UNCHANGED exceptHttp

InitHttp ==
    /\ RouteIdle
    /\ ConfigIdle
    /\ ModuleIdle
    /\ RunIdle
    /\ LibIdle

NextHttp ==
    \/ SendRequest
    \/ ExecuteSingleRequest
    \/ RetrySleep
    \/ RaiseLastError

SpecHttp == InitHttp /\ [][NextHttp]_vars

(***************************************************************************)
(* Wallet.retry_with_rpc_switch                                            *)
(***************************************************************************)
MAX_RETRIES == 3

\* str(e) of errors holding one of the rpc_related_errors substrings
TransientMessages == {"read timeout", "503 service unavailable"}

\* str(e) of errors holding none of them
OtherMessages == {"execution reverted", "insufficient funds"}

\* variant: every error is taken for an RPC-related one
is_rpc_related_error_any(error_str) == TRUE

\* wrapper.is_rpc_related_error
is_rpc_related_error(error_str) == error_str \in TransientMessages

\* a wrapped method of a wallet over rpc_urls endpoints is called
WalletCall ==
    /\ wallet_pc = "idle"
    /\ rpc_urls' \in 1..MaxRpcUrls
    /\ wallet_pc' = "loop"
    /\ current_attempt' = 0
    /\ UNCHANGED <<current_rpc_index, web3, func_calls, wallet_log, wallet_ret>>
    /\ UNCHANGED exceptWallet

\* one turn of while current_attempt < max_attempts, or the raise after it
WrapperLoop ==
    /\ wallet_pc = "loop"
    /\ func_calls < MaxWalletCalls
    /\ IF current_attempt < MAX_RETRIES
       THEN /\ func_calls' = func_calls + 1
            /\ \/ /\ wallet_ret' = [kind |-> "result", error |-> "None"]
                  /\ wallet_pc' = "done"
                  /\ UNCHANGED <<current_rpc_index, web3, wallet_log>>
               \/ \E error_str \in TransientMessages \cup OtherMessages :
                    /\ wallet_log' = Append(wallet_log, error_str)
                    /\ IF is_rpc_related_error(error_str)
                       THEN \* self._switch_rpc_url(), sleep, continue
                            /\ current_rpc_index' = (current_rpc_index + 1) % rpc_urls
                            /\ web3' = web3 + 1
                            /\ UNCHANGED <<wallet_pc, wallet_ret>>
                       ELSE \* raise
                            /\ wallet_ret' = [kind |-> "raise", error |-> error_str]
                            /\ wallet_pc' = "done"
                            /\ UNCHANGED <<current_rpc_index, web3>>
       ELSE /\ wallet_ret' = [kind |-> "raise", error |-> "BlockchainError"]
            /\ wallet_pc' = "done"
            /\ UNCHANGED <<current_rpc_index, web3, func_calls, wallet_log>>
    /\ UNCHANGED <<rpc_urls, current_attempt>>
    /\ UNCHANGED exceptWallet

InitWallet ==
    /\ RouteIdle
    /\ ConfigIdle
    /\ ModuleIdle
    /\ RunIdle
    /\ LibIdle

NextWallet ==
    \/ WalletCall
    \/ WrapperLoop

SpecWallet == InitWallet /\ [][NextWallet]_vars

(***************************************************************************)
(* validate_pair_swap (src/tasks/zenith/config_modules.py)                 *)
(***************************************************************************)
\* token symbols of a pair table
TokenSymbols == {"", "PHRS", "phrs", "USDT"}

\* percentages of a pair table
Percentages == {-1, 0, 5}

PairEntries ==
    [token_out : TokenSymbols, token_in : TokenSymbols, min_amount : Percentages]

\* str.lower
lower(symbol) == IF symbol = "PHRS" THEN "phrs"
                 ELSE IF symbol = "USDT" THEN "usdt"
                 ELSE symbol

PairAccepted == [kind |-> "result", error |-> "None", pair_id |-> 0]

PairRejected(error, pair_id) == [kind |-> "raise", error |-> error, pair_id |-> pair_id]

\* the loop of validate_pair_swap over value.items() and the check after it
RECURSIVE validate_pair_loop(_, _, _)
validate_pair_loop(value, i, has_active_pairs) ==
    IF i > Len(value)
    THEN IF ~has_active_pairs
         THEN PairRejected("No active swap pairs configured", 0)
         ELSE PairAccepted
    ELSE LET token_out == value[i].token_out
             token_in == value[i].token_in
             min_amount == value[i].min_amount
         IN  IF token_out = "" /\ token_in = "" /\ min_amount # 0
             THEN PairRejected("Empty pair requires min_amount = 0", i)
             ELSE IF token_out = "" \/ token_in = ""
             THEN PairRejected("Partial configuration", i)
             ELSE IF lower(token_out) = lower(token_in)
             THEN PairRejected("Same tokens", i)
             ELSE IF min_amount <= 0
             THEN PairRejected("Invalid percentage", i)
             ELSE validate_pair_loop(value, i + 1, TRUE)

validate_pair_swap(value) == validate_pair_loop(value, 1, FALSE)

\* ZenithSwapBaseModule(): the validator runs over the pair table
ValidatePairSwap ==
    /\ pair_pc = "idle"
    /\ pair_ret' = validate_pair_swap(pair_table)
    /\ pair_pc' = "done"
    /\ UNCHANGED pair_table
    /\ UNCHANGED exceptPair

InitPair ==
    /\ RouteIdle
    /\ ConfigIdle
    /\ ModuleIdle
    /\ RunIdle
    /\ HttpIdle
    /\ WalletIdle
    /\ CompIdle
    /\ ResIdle
    /\ NestIdle
    /\ CapIdle
    /\ SlipIdle
    /\ FriendsIdle
    /\ TxIdle
    /\ AggIdle
    /\ MenuIdle
    /\ LinkIdle
    /\ QuarIdle
    /\ pair_table \in SeqsUpTo(PairEntries, MaxPairs)
    /\ pair_pc = "idle"
    /\ pair_ret = NoReturn

NextPair == ValidatePairSwap

SpecPair == InitPair /\ [][NextPair]_vars

(***************************************************************************)
(* The composite modules: FullRegistrationPharos.run_full_registration and *)
(* FullFaucets.run_faucets                                                 *)
(***************************************************************************)
CompositeOperations == {"run_full_registration", "run_faucets"}

\* the keys of results, in the order of the stages
Stages(op) ==
    CASE op = "run_full_registration" -> <<"wallet", "twitter", "discord">>
      [] op = "run_faucets" -> <<"Official PHRS Faucet", "Zenith Faucet">>

\* the text of the except clause of a stage
unexpected_error(op, stage) ==
    CASE op = "run_full_registration" /\ stage = "wallet" ->
           "Unexpected error during wallet connection: "
      [] op = "run_full_registration" /\ stage = "twitter" ->
           "Unexpected error during Twitter connection: "
      [] op = "run_full_registration" /\ stage = "discord" ->
           "Unexpected error during Discord connection: "
      [] op = "run_faucets" /\ stage = "Official PHRS Faucet" ->
           "Unexpected error in PHRS faucet: "
      [] op = "run_faucets" /\ stage = "Zenith Faucet" ->
           "Unexpected error in Zenith faucet: "

\* what the run operation of a stage does when awaited: it returns a pair or
\* raises
StageOutcomes ==
    {ReturnedPair(TRUE, "done"), ReturnedPair(FALSE, "failed")}
        \cup {Raised(e) : e \in RunErrors}

NotExecuted == [success |-> FALSE, message |-> "Not executed"]

\* try: results[stage] = await process_...(); except Exception as e:
\* results[stage] = (False, error_msg)
stage_result(op, stage, outcome) ==
    IF outcome.kind = "raise"
    THEN [success |-> FALSE, message |-> unexpected_error(op, stage) \o outcome.text]
    ELSE [success |-> outcome.ok, message |-> outcome.text]

\* len(successful_steps)
success_count(res) ==
    Cardinality({i \in 1..Len(res) : res[i].success})

\* the final report that calls a partial run a success
final_report_partial_ok(op, res) ==
    IF success_count(res) > 0
    THEN ReturnedPair(TRUE, "completed")
    ELSE ReturnedPair(FALSE, "failed")

\* the three branches on success_count: all, none, some
final_report(op, res) ==
    LET all_msg == IF op = "run_full_registration"
                   THEN "Full registration completed successfully!"
                   ELSE "Successfully claimed from ALL faucets!"
        none_msg == IF op = "run_full_registration"
                    THEN "Full registration failed completely!"
                    ELSE "Failed to claim from ANY faucet!"
        some_msg == IF op = "run_full_registration"
                    THEN "Partial registration completed with warnings"
                    ELSE "Partially successful faucet claims"
        total == " " \o ToString(success_count(res)) \o "/"
                     \o ToString(Len(res))
    IN  CASE success_count(res) = Len(res) -> ReturnedPair(TRUE, all_msg \o total)
          [] success_count(res) = 0 -> ReturnedPair(FALSE, none_msg \o total)
          [] OTHER -> ReturnedPair(FALSE, some_msg \o total)

\* the handler calls the composite operation: results starts as Not executed
RunComposite ==
    /\ comp_pc = "idle"
    /\ \E op \in CompositeOperations :
         /\ comp_op' = op
         /\ comp_results' = [i \in 1..Len(Stages(op)) |-> NotExecuted]
    /\ comp_pc' = "stages"
    /\ comp_step' = 1
    /\ UNCHANGED <<comp_outcomes, comp_ret>>
    /\ UNCHANGED exceptComp

\* one stage inside its own try / except Exception
ExecuteStage ==
    /\ comp_pc = "stages"
    /\ comp_step <= Len(Stages(comp_op))
    /\ \E outcome \in StageOutcomes :
         /\ comp_results' = [comp_results EXCEPT ![comp_step] =
                                stage_result(comp_op, Stages(comp_op)[comp_step], outcome)]
         /\ comp_outcomes' = Append(comp_outcomes, outcome)
    /\ comp_step' = comp_step + 1
    /\ UNCHANGED <<comp_op, comp_pc, comp_ret>>
    /\ UNCHANGED exceptComp

\* the analysis of results and the return
AnalyseResults ==
    /\ comp_pc = "stages"
    /\ comp_step = Len(Stages(comp_op)) + 1
    /\ comp_ret' = final_report(comp_op, comp_results)
    /\ comp_pc' = "done"
    /\ UNCHANGED <<comp_op, comp_step, comp_results, comp_outcomes>>
    /\ UNCHANGED exceptComp

InitComposite ==
    /\ RouteIdle
    /\ ConfigIdle
    /\ ModuleIdle
    /\ RunIdle
    /\ LibIdle

NextComposite ==
    \/ RunComposite
    \/ ExecuteStage
    \/ AnalyseResults

SpecComposite == InitComposite /\ [][NextComposite]_vars

(***************************************************************************)
(* The bad-token quarantine store: save_bad_twitter_token and              *)
(* save_bad_discord_token under file_operation_lock                        *)
(***************************************************************************)
TWITTER_TOKEN_COLUMN == "Twitter Token"

DISCORD_TOKEN_COLUMN == "Discord Token"

TokenColumns == {TWITTER_TOKEN_COLUMN, DISCORD_TOKEN_COLUMN}

\* the session tokens of the accounts
SessionTokens == {"tokA", "tokB"}

\* what a caller can hand over: a token, a token with blanks around it, blanks
\* only, or nothing
GivenTokens == {"tokA", " tokA ", " ", ""}

\* str.strip
strip(token) ==
    CASE token = " tokA " -> "tokA"
      [] token = " " -> ""
      [] OTHER -> token

AccountTasks == 1..MaxTasks

\* the token cells of one account row
SheetRows ==
    {[twitter |-> "tokA", discord |-> "tokB"], [twitter |-> "tokB", discord |-> "tokA"]}

cell_of(row, column) ==
    IF column = TWITTER_TOKEN_COLUMN THEN row.twitter ELSE row.discord

set_cell(row, column, value) ==
    IF column = TWITTER_TOKEN_COLUMN
    THEN [row EXCEPT !.twitter = value]
    ELSE [row EXCEPT !.discord = value]

\* load_bad_tokens_from_file: the set of the non-blank stripped lines
load_bad_tokens_from_file(lines) ==
    {strip(lines[i]) : i \in {j \in 1..Len(lines) : strip(lines[j]) # ""}}

\* a duplicate check that never finds the token
is_token_never_marked(loaded, token) == FALSE

\* is_token_already_marked_as_bad on what was loaded
is_token_already_marked_as_bad(loaded, token) ==
    IF token = "" THEN FALSE ELSE strip(token) \in loaded

\* the rows whose cell in the column holds the token
matching_rows(sheet, column, token) ==
    {i \in 1..Len(sheet) :
        /\ cell_of(sheet[i], column) # ""
        /\ strip(cell_of(sheet[i], column)) = strip(token)}

\* remove_token_from_excel_file: the worksheet after cell.value = "" in the
\* matching rows
blanked(sheet, column, token) ==
    [i \in 1..Len(sheet) |->
        IF i \in matching_rows(sheet, column, token)
        THEN set_cell(sheet[i], column, "")
        ELSE sheet[i]]

Artifacts == [file |-> bad_tokens_file, sheet |-> worksheet]

\* an account task finds its token invalid and calls save_bad_twitter_token or
\* save_bad_discord_token
SaveBadToken(t) ==
    /\ quar_pc[t] = "idle"
    /\ \E column \in TokenColumns, token \in GivenTokens :
         quar_arg' = [quar_arg EXCEPT ![t] = [column |-> column, token |-> token]]
    /\ quar_pc' = [quar_pc EXCEPT ![t] = "lock"]
    /\ UNCHANGED <<bad_tokens_file, worksheet, excel_readable, file_operation_lock,
                   bad_tokens, token_saved, token_removed, quar_order, quar_before,
                   quar_after>>
    /\ UNCHANGED exceptQuar

\* entering the critical section without waiting for the lock
AcquireLockNoWait(t) ==
    /\ quar_pc[t] = "lock"
    /\ file_operation_lock' = t
    /\ quar_order' = Append(quar_order, t)
    /\ quar_before' = [quar_before EXCEPT ![t] = Artifacts]
    /\ quar_pc' = [quar_pc EXCEPT ![t] =
                      IF quar_arg[t].token = "" THEN "unlock" ELSE "save"]
    /\ UNCHANGED <<bad_tokens_file, worksheet, excel_readable, quar_arg, bad_tokens,
                   token_saved, token_removed, quar_after>>
    /\ UNCHANGED exceptQuar

\* async with file_operation_lock: the task enters when the lock is free;
\* process_bad_token returns at once for an empty token
AcquireLock(t) ==
    /\ quar_pc[t] = "lock"
    /\ file_operation_lock = 0
    /\ file_operation_lock' = t
    /\ quar_order' = Append(quar_order, t)
    /\ quar_before' = [quar_before EXCEPT ![t] = Artifacts]
    /\ quar_pc' = [quar_pc EXCEPT ![t] =
                      IF quar_arg[t].token = "" THEN "unlock" ELSE "save"]
    /\ UNCHANGED <<bad_tokens_file, worksheet, excel_readable, quar_arg, bad_tokens,
                   token_saved, token_removed, quar_after>>
    /\ UNCHANGED exceptQuar

\* save_bad_token_to_file up to the end of the awaited read of the file: a
\* token of blanks only returns False before the read
ReadBadTokens(t) ==
    /\ quar_pc[t] = "save"
    /\ IF strip(quar_arg[t].token) = ""
       THEN /\ quar_pc' = [quar_pc EXCEPT ![t] = "remove"]
            /\ UNCHANGED bad_tokens
       ELSE /\ bad_tokens' = [bad_tokens EXCEPT ![t] =
                                 load_bad_tokens_from_file(bad_tokens_file[quar_arg[t].column])]
            /\ quar_pc' = [quar_pc EXCEPT ![t] = "append"]
    /\ UNCHANGED <<bad_tokens_file, worksheet, excel_readable, file_operation_lock,
                   quar_arg, token_saved, token_removed, quar_order, quar_before,
                   quar_after>>
    /\ UNCHANGED exceptQuar

\* save_bad_token_to_file after the read: return False for a marked token,
\* otherwise append the stripped token and a newline
AppendBadToken(t) ==
    /\ quar_pc[t] = "append"
    /\ LET column == quar_arg[t].column
           token == strip(quar_arg[t].token)
       IN  IF is_token_already_marked_as_bad(bad_tokens[t], token)
           THEN UNCHANGED <<bad_tokens_file, token_saved>>
           ELSE /\ bad_tokens_file' = [bad_tokens_file EXCEPT
                                          ![column] = Append(@, token)]
                /\ token_saved' = [token_saved EXCEPT ![t] = TRUE]
    /\ quar_pc' = [quar_pc EXCEPT ![t] = "remove"]
    /\ UNCHANGED <<worksheet, excel_readable, file_operation_lock, quar_arg, bad_tokens,
                   token_removed, quar_order, quar_before, quar_after>>
    /\ UNCHANGED exceptQuar

\* remove_token_from_excel_file: load, blank the matching cells, save when a
\* cell was blanked; an error of the workbook is logged and gives False
RemoveTokenFromExcel(t) ==
    /\ quar_pc[t] = "remove"
    /\ LET column == quar_arg[t].column
           token == quar_arg[t].token
       IN  IF /\ strip(token) # ""
              /\ excel_readable
              /\ matching_rows(worksheet, column, token) # {}
           THEN /\ worksheet' = blanked(worksheet, column, token)
                /\ token_removed' = [token_removed EXCEPT ![t] = TRUE]
           ELSE UNCHANGED <<worksheet, token_removed>>
    /\ quar_pc' = [quar_pc EXCEPT ![t] = "unlock"]
    /\ UNCHANGED <<bad_tokens_file, excel_readable, file_operation_lock, quar_arg,
                   bad_tokens, token_saved, quar_order, quar_before, quar_after>>
    /\ UNCHANGED exceptQuar

\* the end of async with: the lock is released and save_bad_*_token returns None
ReleaseLock(t) ==
    /\ quar_pc[t] = "unlock"
    /\ file_operation_lock' = IF file_operation_lock = t THEN 0 ELSE file_operation_lock
    /\ quar_after' = [quar_after EXCEPT ![t] = Artifacts]
    /\ quar_pc' = [quar_pc EXCEPT ![t] = "returned"]
    /\ UNCHANGED <<bad_tokens_file, worksheet, excel_readable, quar_arg, bad_tokens,
                   token_saved, token_removed, quar_order, quar_before>>
    /\ UNCHANGED exceptQuar

\* the quarantine files the program left behind: no token twice
QuarantineFiles ==
    {[c \in TokenColumns |-> <<>>], [c \in TokenColumns |-> <<"tokB">>]}

InitQuar ==
    /\ RouteIdle
    /\ ConfigIdle
    /\ ModuleIdle
    /\ RunIdle
    /\ HttpIdle
    /\ WalletIdle
    /\ PairIdle
    /\ CompIdle
    /\ ResIdle
    /\ NestIdle
    /\ CapIdle
    /\ SlipIdle
    /\ FriendsIdle
    /\ TxIdle
    /\ AggIdle
    /\ MenuIdle
    /\ LinkIdle
    /\ bad_tokens_file \in QuarantineFiles
    /\ worksheet \in SeqsUpTo(SheetRows, MaxRows)
    /\ excel_readable \in BOOLEAN
    /\ file_operation_lock = 0
    /\ quar_pc = [t \in AccountTasks |-> "idle"]
    /\ quar_arg = [t \in AccountTasks |-> NoArg]
    /\ bad_tokens = [t \in AccountTasks |-> {}]
    /\ token_saved = [t \in AccountTasks |-> FALSE]
    /\ token_removed = [t \in AccountTasks |-> FALSE]
    /\ quar_order = <<>>
    /\ quar_before = [t \in AccountTasks |-> NoArtifacts]
    /\ quar_after = [t \in AccountTasks |-> NoArtifacts]

NextQuar ==
    \E t \in AccountTasks :
        \/ SaveBadToken(t)
        \/ AcquireLock(t)
        \/ ReadBadTokens(t)
        \/ AppendBadToken(t)
        \/ RemoveTokenFromExcel(t)
        \/ ReleaseLock(t)

SpecQuar == InitQuar /\ [][NextQuar]_vars

(***************************************************************************)
(* Linking a social account: TwitterBaseClient.run_connect_twitter and     *)
(* ConnectDiscordPharos.run_connect_discord                                *)
(***************************************************************************)
\* What one call of link_twitter_account / link_discord_account meets: the
\* answer of the bind endpoint of the platform, or an error raised earlier in
\* the flow (status 0).
LinkOutcomes ==
    [kind : {"bind"}, status : {200, 400, 401, 409, 500}, class : {""}]
      \cup [kind : {"raise"}, status : {0},
            class : {"AccountSuspendedError", "InvalidTokenError", "NetworkError",
                     "AuthError", "RateLimitError", "ServerError"}]

\* the class link_*_account raises, "" when it returns its message: the
\* branches on bind_response.status, and the errors of the earlier steps
\* (the Discord flow has no suspended-account error)
link_account(platform, outcome) ==
    CASE outcome.kind = "bind" /\ outcome.status = 200 -> ""
      [] outcome.kind = "bind" /\ outcome.status \in {401, 403} -> "InvalidTokenError"
      [] outcome.kind = "bind" -> "AuthError"
      [] platform = "discord" /\ outcome.class = "AccountSuspendedError" -> "AuthError"
      [] OTHER -> outcome.class

\* bodies of an answer of the bind endpoint: JSON with a message, JSON
\* without one, or no JSON (one body for the outcomes without an answer)
BindBodies(outcome) ==
    IF outcome.kind = "bind" /\ outcome.status = 400
    THEN {[json |-> TRUE, message |-> "The account is bound to another address"],
          [json |-> TRUE, message |-> ""],
          [json |-> FALSE, message |-> ""]}
    ELSE {[json |-> FALSE, message |-> ""]}

\* the branch for status 400: what the try block raises and what the
\* except Exception clause around it makes of it
bind_error_400(body) ==
    LET in_try ==
            IF ~body.json THEN [class |-> "JSONDecodeError", text |-> <<"invalid json">>]
            ELSE [class |-> "AuthError",
                  text |-> <<"Account linking error: ",
                             IF body.message = "" THEN "Unknown error"
                             ELSE body.message>>]
        is_exception == in_try.class \in {"JSONDecodeError", "AuthError"}
    IN  IF is_exception THEN <<"Account linking error: invalid data">>
        ELSE in_try.text

\* str(e) of what link_*_account raises, <<>> when it returns
error_text(outcome, body) ==
    IF outcome.kind = "bind" /\ outcome.status = 400 THEN bind_error_400(body)
    ELSE IF outcome.kind = "bind" /\ outcome.status = 200 THEN <<>>
    ELSE IF outcome.kind = "bind" THEN <<"status ", ToString(outcome.status)>>
    ELSE <<outcome.class>>

\* an except chain that retries after every error
link_except_always_retry(platform, class, n) ==
    IF n = MAX_RETRY_ATTEMPTS - 1
    THEN ReturnedPair(FALSE, "Authorization failed after all attempts")
    ELSE NoReturn

\* the except clauses of the run operation: the pair returned for the class
\* raised on this n, NoReturn when the loop sleeps and goes on
link_except(platform, class, n) ==
    LET last == n = MAX_RETRY_ATTEMPTS - 1
        name == IF platform = "twitter" THEN "Twitter" ELSE "Discord"
    IN  CASE class = "AccountSuspendedError" /\ platform = "twitter" ->
               ReturnedPair(FALSE, "Twitter account blocked or suspended")
          [] class = "InvalidTokenError" ->
               ReturnedPair(FALSE, "Invalid or expired " \o name \o " authorization token")
          [] ~last -> NoReturn
          [] class = "ServerError" /\ platform = "discord" ->
               ReturnedPair(FALSE, "Discord server error after all attempts")
          [] class = "RateLimitError" /\ platform = "discord" ->
               ReturnedPair(FALSE, "Discord rate limit exceeded after all attempts")
          [] class = "NetworkError" ->
               ReturnedPair(FALSE, "Failed to connect to services after all attempts")
          [] class = "AuthError" ->
               ReturnedPair(FALSE, "Authorization failed after all attempts")
          [] OTHER ->
               ReturnedPair(FALSE, "Unexpected error while trying to "
                                      \o ToString(n + 1) \o ": " \o class)

\* the run operation is called: without a token it returns at once
RunConnect ==
    /\ link_pc = "idle"
    /\ \E platform \in {"twitter", "discord"} :
         /\ link_platform' = platform
         /\ \/ /\ link_pc' = "attempt"
               /\ UNCHANGED link_ret
            \/ /\ link_pc' = "done"
               /\ link_ret' = ReturnedPair(FALSE,
                     (IF platform = "twitter" THEN "Twitter" ELSE "Discord")
                         \o " authorization token is missing")
    /\ UNCHANGED <<link_attempt, link_log, session_open, sessions_opened,
                   bind_body, link_error>>
    /\ UNCHANGED exceptLink

\* the start of one pass of the loop: aiohttp.ClientSession(...)
OpenSession ==
    /\ link_pc = "attempt"
    /\ link_attempt < MAX_RETRY_ATTEMPTS
    /\ session_open' = TRUE
    /\ sessions_opened' = sessions_opened + 1
    /\ link_pc' = "linking"
    /\ UNCHANGED <<link_platform, link_attempt, link_log, bind_body, link_error,
                   link_ret>>
    /\ UNCHANGED exceptLink

\* the rest of the pass: link_*_account, the finally that closes the session,
\* and the return or the except clause
LinkAccount ==
    /\ link_pc = "linking"
    /\ \E outcome \in LinkOutcomes : \E body \in BindBodies(outcome) :
         LET class == link_account(link_platform, outcome)
             result == IF class = ""
                       THEN ReturnedPair(TRUE,
                              (IF link_platform = "twitter" THEN "Twitter" ELSE "Discord")
                                 \o " account successfully linked to Pharos Network")
                       ELSE link_except(link_platform, class, link_attempt)
         IN  /\ link_log' = Append(link_log, outcome)
             /\ bind_body' = body
             /\ link_error' = error_text(outcome, body)
             /\ IF result = NoReturn
                THEN /\ link_attempt' = link_attempt + 1
                     /\ link_pc' = "attempt"
                     /\ UNCHANGED link_ret
                ELSE /\ link_ret' = result
                     /\ link_pc' = "done"
                     /\ UNCHANGED link_attempt
    /\ session_open' = FALSE
    /\ UNCHANGED <<link_platform, sessions_opened>>
    /\ UNCHANGED exceptLink

InitLink ==
    /\ RouteIdle
    /\ ConfigIdle
    /\ ModuleIdle
    /\ RunIdle
    /\ LibIdle

NextLink ==
    \/ RunConnect
    \/ OpenSession
    \/ LinkAccount

SpecLink == InitLink /\ [][NextLink]_vars

(***************************************************************************)
(* The console menu: Console.build and Console.process_input               *)
(***************************************************************************)
\* the children of each MenuItem of Console.main_menu; a leaf is named by its
\* action
MenuChildren(menu) ==
    CASE menu = "Main Menu" ->
           <<"statistics_account", "Registration management", "Pharos tasks",
             "Faucets", "Zenith Finance", "auto_route">>
      [] menu = "Registration management" ->
           <<"full_registration", "connect_wallet", "connect_twitter", "connect_discord">>
      [] menu = "Pharos tasks" ->
           <<"daily_check_in", "twitter_tasks", "send_to_friends", "mint_pharos_badge",
             "mint_pharos_nft">>
      [] menu = "Faucets" -> <<"full_faucets", "phrs_faucet", "zenith_faucet">>
      [] menu = "Zenith Finance" -> <<"connect_twitter_zenith", "swap_zenith">>
      [] OTHER -> <<>>

\* MenuItem.parent, "" for None
MenuParent(menu) ==
    IF menu \in {"Registration management", "Pharos tasks", "Faucets", "Zenith Finance"}
    THEN "Main Menu"
    ELSE ""

\* what can be typed: an integer, or a line int() does not accept
MenuInputs ==
    [numeric : {TRUE}, value : -7..7] \cup {NoInput}

\* list[k] of Python: the position read, 0 for IndexError (a negative k counts
\* from the end)
list_index(n, k) ==
    CASE 0 <= k /\ k < n -> k + 1
      [] k < 0 /\ -n <= k -> n + k + 1
      [] OTHER -> 0

\* process_input where 0 in a submenu ends the program
process_input_exit_anywhere(menu, console, typed) ==
    IF typed.numeric /\ typed.value = 0
    THEN [console EXCEPT !.should_exit = TRUE, !.running = FALSE]
    ELSE console

\* Console.process_input with handle_action: the console after the line typed
\* at the menu (current_menu, running, should_exit, selected_action)
process_input(menu, console, typed) ==
    LET children == MenuChildren(menu)
        at == list_index(Len(children), typed.value - 1)
    IN  CASE ~typed.numeric -> console
          [] typed.value = 0 /\ MenuParent(menu) # "" ->
               [console EXCEPT !.current_menu = MenuParent(menu)]
          [] typed.value = 0 ->
               [console EXCEPT !.should_exit = TRUE, !.running = FALSE]
          [] at = 0 -> console
          [] MenuChildren(children[at]) # <<>> ->
               [console EXCEPT !.current_menu = children[at]]
          [] OTHER ->
               [console EXCEPT !.selected_action = children[at], !.running = FALSE]

\* Console.build up to the loop
Build ==
    /\ builds < MaxBuilds
    /\ builds > 0 => ~running
    /\ current_menu' = "Main Menu"
    /\ running' = TRUE
    /\ should_exit' = FALSE
    /\ selected_action' = ""
    /\ menu_inputs' = 0
    /\ builds' = builds + 1
    /\ UNCHANGED menu_input
    /\ UNCHANGED exceptMenu

\* one pass of while self.running: display_menu and process_input
ProcessInput ==
    /\ builds > 0
    /\ running
    /\ menu_inputs < MaxInputs
    /\ \E typed \in MenuInputs :
         LET console == process_input(current_menu,
                            [current_menu |-> current_menu, running |-> running,
                             should_exit |-> should_exit,
                             selected_action |-> selected_action], typed)
         IN  /\ menu_input' = typed
             /\ current_menu' = console.current_menu
             /\ running' = console.running
             /\ should_exit' = console.should_exit
             /\ selected_action' = console.selected_action
    /\ menu_inputs' = menu_inputs + 1
    /\ UNCHANGED builds
    /\ UNCHANGED exceptMenu

InitMenu ==
    /\ RouteIdle
    /\ ConfigIdle
    /\ ModuleIdle
    /\ RunIdle
    /\ LibIdle

NextMenu ==
    \/ Build
    \/ ProcessInput

SpecMenu == InitMenu /\ [][NextMenu]_vars

(***************************************************************************)
(* AccountExecutionResult and the aggregator between two clears            *)
(***************************************************************************)
\* AccountExecutionResult.successful_modules_count
successful_modules_count(account_result) ==
    Cardinality({m \in DOMAIN account_result.module_results :
                    account_result.module_results[m].is_successful})

\* AccountExecutionResult.total_modules_count
total_modules_count(account_result) ==
    Cardinality(DOMAIN account_result.module_results)

\* AccountExecutionResult.success_percentage, in hundredths of a percent:
\* round(successful / total * 100, 2)
success_percentage(account_result) ==
    LET s == successful_modules_count(account_result)
        t == total_modules_count(account_result)
    IN  IF t = 0 THEN 0 ELSE (2 * s * 10000 + t) \div (2 * t)

AggregatedWallets == {"0xA", "0xB"}

AggregatedModules == {"daily_check_in", "full_faucets", "send_to_friends", "swap_zenith"}

\* a handler result is recorded: reporter.add_execution_result(...)
AddExecutionResult ==
    /\ Len(agg_calls) < MaxResults
    /\ \E w \in AggregatedWallets, m \in AggregatedModules, ok \in BOOLEAN :
         LET msg == IF ok THEN "done" ELSE "failed"
         IN  /\ agg_results' = add_execution_result(agg_results, w, ok, msg, m)
             /\ agg_calls' = Append(agg_calls,
                                [wallet |-> w, module |-> m, ok |-> ok])
    /\ UNCHANGED exceptAgg

\* TelegramReporter.clear_all_results
ClearAllResults ==
    /\ agg_calls # <<>>
    /\ agg_results' = EmptyDict
    /\ agg_calls' = <<>>
    /\ UNCHANGED exceptAgg

InitAgg ==
    /\ RouteIdle
    /\ ConfigIdle
    /\ ModuleIdle
    /\ RunIdle
    /\ LibIdle

NextAgg ==
    \/ AddExecutionResult
    \/ ClearAllResults

SpecAgg == InitAgg /\ [][NextAgg]_vars

(***************************************************************************)
(* Wallet transactions (src/src/wallet.py, src/src/tasks/zenith/swap.py)   *)
(***************************************************************************)
\* asyncio.TimeoutError
TIMEOUT == "TimeoutError"

NONCE_TOO_LOW == "nonce too low"

\* what send_raw_transaction does: the node takes the transaction or the
\* call raises
SendOutcomes == {"accepted", NONCE_TOO_LOW, TIMEOUT, "read timeout", "execution reverted"}

\* what the wait for the receipt does: a receipt, the 60 seconds pass, or the
\* polling raises
WaitOutcomes == {"status 1", "status 0", TIMEOUT, "read timeout", "execution reverted"}

\* get_transaction_count(address, 'pending'): a count, or -1 when it raises
PendingCounts == {-1, 0, 2}

\* current allowance read from the token contract, -1 when the call raises
Allowances == {-1, 0, 1, 2}

AmountsIn == 0..2

StartNonces == {0, 1}

\* tx_hash of the transaction sent with a nonce
hash_of(nonce) == 100 + nonce

\* "NONCE_TOO_SMALL" in error_str or "nonce too low" in error_str.lower()
is_nonce_too_low(error_str) == error_str = NONCE_TOO_LOW

\* variant: a confirmation timeout is raised like a transport timeout
send_and_verify_transaction_timeout_raised(outcome, hash) ==
    CASE outcome = "status 1" ->
            [act |-> "return", ret |-> [ok |-> TRUE, kind |-> "success", hash |-> hash]]
      [] outcome = "status 0" ->
            [act |-> "return", ret |-> [ok |-> FALSE, kind |-> "reverted", hash |-> hash]]
      [] outcome = TIMEOUT ->
            [act |-> "raise", ret |-> [ok |-> FALSE, kind |-> "read timeout", hash |-> -1]]
      [] is_nonce_too_low(outcome) ->
            [act |-> "nonce", ret |-> NoOutcome]
      [] OTHER ->
            [act |-> "raise", ret |-> [ok |-> FALSE, kind |-> outcome, hash |-> -1]]

\* the body of send_and_verify_transaction once the awaited call ended with
\* outcome: what it returns, or the handler it enters (hash is tx_hash, -1
\* while nothing was sent)
send_and_verify_transaction(outcome, hash) ==
    CASE outcome = "status 1" ->
            [act |-> "return", ret |-> [ok |-> TRUE, kind |-> "success", hash |-> hash]]
      [] outcome = "status 0" ->
            [act |-> "return", ret |-> [ok |-> FALSE, kind |-> "reverted", hash |-> hash]]
      [] outcome = TIMEOUT ->
            IF hash # -1
            THEN [act |-> "return", ret |-> [ok |-> FALSE, kind |-> "pending", hash |-> hash]]
            ELSE [act |-> "return", ret |-> [ok |-> FALSE, kind |-> "None", hash |-> -1]]
      [] is_nonce_too_low(outcome) ->
            [act |-> "nonce", ret |-> NoOutcome]
      [] OTHER ->
            [act |-> "raise", ret |-> [ok |-> FALSE, kind |-> outcome, hash |-> -1]]

\* new_nonce after the pending count was read
new_nonce(pending, nonce) == IF pending <= nonce THEN nonce + 1 ELSE pending

\* _process_transaction: the pair made of what send_and_verify_transaction
\* returned or raised
process_transaction(ret) ==
    IF ret.kind \in {"success", "reverted", "pending"} THEN ret
    ELSE [ok |-> FALSE, kind |-> "error", hash |-> -1]

\* _check_and_approve_token once _process_transaction returned
check_and_approve_token(processed) ==
    IF processed.ok THEN [ok |-> TRUE, kind |-> "approved", hash |-> processed.hash]
    ELSE [ok |-> FALSE, kind |-> "Error during approval", hash |-> -1]

\* the call to the node recorded with the transaction it concerns
LogEntry(step, tx, outcome) ==
    [step |-> step, nonce |-> tx.nonce, amount |-> tx.amount, outcome |-> outcome]

SendCalls == Cardinality({i \in 1..Len(tx_log) : tx_log[i].step = "send"})

\* token symbols of TOKENS_DATA_PHAROS: the native token, its wrapper and
\* two of the other ERC-20 tokens
SwapTokens == {"PHRS", "wPHRS", "USDC", "USDT"}

\* swap: the branch of the if / elif chain that builds tx_params, "none"
\* when no condition holds and tx_params stays unbound
routing_case(t1, t2) ==
    LET base == {"PHRS", "wPHRS"}
    IN  CASE t1 = "PHRS" /\ t2 = "wPHRS" -> "wrap"
          [] t1 = "wPHRS" /\ t2 = "PHRS" -> "unwrap"
          [] t1 = "PHRS" /\ t2 # "wPHRS" -> "PHRS -> ERC20"
          [] t1 \notin base /\ t2 = "PHRS" -> "ERC20 -> PHRS"
          [] t1 \notin base /\ t2 \notin base -> "ERC20 -> ERC20"
          [] t1 = "wPHRS" /\ t2 # "PHRS" -> "wPHRS -> ERC20"
          [] OTHER -> "none"

\* swap: approval first for a token other than the native one
swap_first_step(token, amount_in) ==
    IF token # "PHRS" /\ amount_in > 0 THEN "allowance" ELSE "router"

\* _check_and_approve_token returns: alone, or inside swap
ApproveReturns(approved) ==
    IF tx_call = "swap" /\ approved.ok
    THEN /\ tx_pc' = "router"
         /\ UNCHANGED tx_ret
    ELSE /\ tx_pc' = "done"
         /\ tx_ret' = approved

\* send_and_verify_transaction returns or raises to its first caller
SendReturns(ret) ==
    /\ send_ret' = ret
    /\ IF tx_call = "send"
       THEN /\ tx_pc' = "done"
            /\ tx_ret' = ret
       ELSE ApproveReturns(check_and_approve_token(process_transaction(ret)))

\* the function body after an awaited call: return, the nonce handler, or
\* the raise that reaches retry_with_rpc_switch
Continue(step) ==
    CASE step.act = "return" ->
            /\ SendReturns(step.ret)
            /\ UNCHANGED <<tx_hash, tx_depth>>
      [] step.act = "nonce" ->
            /\ tx_pc' = "nonce"
            /\ UNCHANGED <<tx_hash, tx_depth, send_ret, tx_ret>>
      [] OTHER ->
            IF is_rpc_related_error(step.ret.kind)
            THEN /\ tx_pc' = "send"
                 /\ tx_hash' = -1
                 /\ UNCHANGED <<tx_depth, send_ret, tx_ret>>
            ELSE /\ SendReturns([ok |-> FALSE, kind |-> "raise", hash |-> -1])
                 /\ UNCHANGED <<tx_hash, tx_depth>>

\* a task sends a transaction it built
CallSendAndVerify ==
    /\ tx_pc = "idle"
    /\ tx_call' = "send"
    /\ tx_pc' = "send"
    /\ \E n \in StartNonces : transaction' = [nonce |-> n, amount |-> 0]
    /\ UNCHANGED <<name_token_1, name_token_2, amount, swap_attempt, tx_hash, tx_depth,
                   tx_log, send_ret, tx_ret>>
    /\ UNCHANGED exceptTx

\* _check_and_approve_token(token_address, spender_address, amount)
CallCheckAndApprove ==
    /\ tx_pc = "idle"
    /\ tx_call' = "approve"
    /\ tx_pc' = "allowance"
    /\ \E a \in AmountsIn : amount' = a
    /\ UNCHANGED <<name_token_1, name_token_2, swap_attempt, transaction, tx_hash, tx_depth,
                   tx_log, send_ret, tx_ret>>
    /\ UNCHANGED exceptTx

\* ZenithSwapModule.swap(name_token_1, ..., amount_in)
CallSwap ==
    /\ tx_pc = "idle"
    /\ tx_call' = "swap"
    /\ \E token \in SwapTokens, received \in SwapTokens, a \in AmountsIn :
         /\ token # received
         /\ name_token_1' = token
         /\ name_token_2' = received
         /\ amount' = a
         /\ tx_pc' = swap_first_step(token, a)
    /\ UNCHANGED <<swap_attempt, transaction, tx_hash, tx_depth,
                   tx_log, send_ret, tx_ret>>
    /\ UNCHANGED exceptTx

\* _check_and_approve_token up to _process_transaction
ReadAllowance ==
    /\ tx_pc = "allowance"
    /\ \E current_allowance \in Allowances :
         /\ tx_log' = Append(tx_log, [step |-> "allowance", nonce |-> -1,
                                      amount |-> current_allowance,
                                      outcome |-> IF current_allowance = -1
                                                  THEN "raised" ELSE "read"])
         /\ IF current_allowance = -1
            THEN /\ ApproveReturns([ok |-> FALSE, kind |-> "Error during approval",
                                    hash |-> -1])
                 /\ UNCHANGED <<transaction, tx_hash, tx_depth>>
            ELSE IF current_allowance >= amount
            THEN /\ ApproveReturns([ok |-> TRUE, kind |-> "sufficient", hash |-> -1])
                 /\ UNCHANGED <<transaction, tx_hash, tx_depth>>
            ELSE \/ /\ ApproveReturns([ok |-> FALSE, kind |-> "Error during approval",
                                       hash |-> -1])
                    /\ UNCHANGED <<transaction, tx_hash, tx_depth>>
                 \/ /\ \E n \in StartNonces :
                         transaction' = [nonce |-> n, amount |-> amount]
                    /\ tx_pc' = "send"
                    /\ tx_hash' = -1
                    /\ tx_depth' = 0
                    /\ UNCHANGED tx_ret
    /\ UNCHANGED <<tx_call, name_token_1, name_token_2, amount, swap_attempt, send_ret>>
    /\ UNCHANGED exceptTx

\* sign_transaction, send_raw_transaction
SendRawTransaction ==
    /\ tx_pc = "send"
    /\ SendCalls < MaxSends
    /\ \E outcome \in SendOutcomes :
         /\ tx_log' = Append(tx_log, LogEntry("send", transaction, outcome))
         /\ IF outcome = "accepted"
            THEN /\ tx_hash' = hash_of(transaction.nonce)
                 /\ tx_pc' = "wait"
                 /\ UNCHANGED <<tx_depth, send_ret, tx_ret>>
            ELSE Continue(send_and_verify_transaction(outcome, tx_hash))
    /\ UNCHANGED <<tx_call, name_token_1, name_token_2, amount, swap_attempt, transaction>>
    /\ UNCHANGED exceptTx

\* asyncio.wait_for(wait_for_transaction_receipt(tx_hash), DEFAULT_TIMEOUT)
WaitForReceipt ==
    /\ tx_pc = "wait"
    /\ \E outcome \in WaitOutcomes :
         /\ tx_log' = Append(tx_log, LogEntry("wait", transaction, outcome))
         /\ Continue(send_and_verify_transaction(outcome, tx_hash))
    /\ UNCHANGED <<tx_call, name_token_1, name_token_2, amount, swap_attempt, transaction>>
    /\ UNCHANGED exceptTx

\* the "nonce too low" handler: a new nonce and the call of
\* send_and_verify_transaction from inside it
GetTransactionCount ==
    /\ tx_pc = "nonce"
    /\ \E pending \in PendingCounts :
         IF pending = -1
         THEN /\ tx_log' = Append(tx_log, LogEntry("nonce", transaction, "raised"))
              /\ SendReturns([ok |-> FALSE, kind |-> "raise", hash |-> -1])
              /\ UNCHANGED <<transaction, tx_hash, tx_depth>>
         ELSE LET tx == [transaction EXCEPT
                            !.nonce = new_nonce(pending, transaction.nonce)]
              IN  /\ transaction' = tx
                  /\ tx_log' = Append(tx_log, LogEntry("nonce", tx, "set"))
                  /\ tx_depth' = tx_depth + 1
                  /\ tx_hash' = -1
                  /\ tx_pc' = "send"
                  /\ UNCHANGED <<send_ret, tx_ret>>
    /\ UNCHANGED <<tx_call, name_token_1, name_token_2, amount, swap_attempt>>
    /\ UNCHANGED exceptTx

\* swap: the transaction of the pair is built and processed
RouterTransaction ==
    /\ tx_pc = "router"
    /\ \E outcome \in IF routing_case(name_token_1, name_token_2) = "none"
                       THEN {"UnboundLocalError"}
                       ELSE {"success", "failed", "raised"} :
         /\ tx_log' = Append(tx_log, [step |-> "router", nonce |-> -1,
                                      amount |-> amount, outcome |-> outcome])
         /\ IF outcome = "success"
            THEN /\ tx_pc' = "done"
                 /\ tx_ret' = [ok |-> TRUE, kind |-> "swapped", hash |-> -1]
                 /\ UNCHANGED swap_attempt
            ELSE IF swap_attempt = MAX_RETRY_ATTEMPTS - 1
            THEN /\ tx_pc' = "done"
                 /\ tx_ret' = [ok |-> FALSE, kind |-> "Swap failed", hash |-> -1]
                 /\ UNCHANGED swap_attempt
            ELSE /\ swap_attempt' = swap_attempt + 1
                 /\ tx_pc' = swap_first_step(name_token_1, amount)
                 /\ UNCHANGED tx_ret
    /\ UNCHANGED <<tx_call, name_token_1, name_token_2, amount, transaction, tx_hash,
                   tx_depth, send_ret>>
    /\ UNCHANGED exceptTx

InitTx ==
    /\ RouteIdle
    /\ ConfigIdle
    /\ ModuleIdle
    /\ RunIdle
    /\ LibIdle

NextTx ==
    \/ CallSendAndVerify
    \/ CallCheckAndApprove
    \/ CallSwap
    \/ ReadAllowance
    \/ SendRawTransaction
    \/ WaitForReceipt
    \/ GetTransactionCount
    \/ RouterTransaction

SpecTx == InitTx /\ [][NextTx]_vars

(***************************************************************************)
(* run_send_to_friends (src/src/tasks/pharos_tasks/send_to_friends.py)     *)
(* Amounts are counted in 10^-6 PHRS, random() in thousandths.             *)
(***************************************************************************)
\* the lower end of the draw, 0.001 PHRS
LOWER_SEND == 1000

\* values of MAX_SEND_PHRS an operator may configure
ConfiguredCaps == {0, 500, 10000, 50000}

\* native balances of a wallet
Balances == {0, 500, 1000, 1009, 5000, 10000, 20000}

\* random.random() in thousandths: a value in [0, 1)
Randoms == {0, 125, 250, 375, 500, 625, 750, 875, 999}

\* random.uniform(a, b) = a + (b - a) * random(), in thousandths of 10^-6
uniform(a, b, r) == a * 1000 + (b - a) * r

\* round(x, 5): x in thousandths of 10^-6, the result in 10^-6
round_5(x) == ((x + 5000) \div 10000) * 10

\* max_send: the smaller of MAX_SEND_PHRS and the balance
max_send(cap, bal) == IF cap > bal THEN bal ELSE cap

\* how _process_transaction and verify_tasks end in one attempt: the
\* transfer is not broadcast, is broadcast and reverted or still pending after
\* the confirmation timeout, or is confirmed and then /task/verify accepts
\* it, refuses it or fails
TransferOutcomes ==
    {"not sent", "reverted", "pending", "verified", "verify refused", "verify failed"}

\* the task is called
RunSendToFriends ==
    /\ friends_pc = "idle"
    /\ friends_pc' = "attempt"
    /\ UNCHANGED <<MAX_SEND_PHRS, friends_attempt, balance, send_amount, transfers>>
    /\ UNCHANGED exceptFriends

\* one pass of the retry loop: balance, checks, draw, transfer, verification
TransferAttempt ==
    /\ friends_pc = "attempt"
    /\ \E bal \in Balances, r \in Randoms, outcome \in TransferOutcomes :
         /\ balance' = bal
         /\ IF ~(bal > 0) \/ MAX_SEND_PHRS <= 0
            THEN /\ friends_pc' = "failed"
                 /\ send_amount' = -1
                 /\ UNCHANGED <<friends_attempt, transfers>>
            ELSE /\ send_amount' = round_5(uniform(LOWER_SEND, max_send(MAX_SEND_PHRS, bal), r))
                 /\ transfers' = Append(transfers, outcome)
                 /\ IF outcome = "verified"
                    THEN /\ friends_pc' = "done"
                         /\ UNCHANGED friends_attempt
                    ELSE IF friends_attempt = MAX_RETRY_ATTEMPTS - 1
                    THEN /\ friends_pc' = "failed"
                         /\ UNCHANGED friends_attempt
                    ELSE /\ friends_attempt' = friends_attempt + 1
                         /\ UNCHANGED friends_pc
    /\ UNCHANGED MAX_SEND_PHRS
    /\ UNCHANGED exceptFriends

InitFriends ==
    /\ RouteIdle
    /\ ConfigIdle
    /\ ModuleIdle
    /\ RunIdle
    /\ HttpIdle
    /\ WalletIdle
    /\ PairIdle
    /\ CompIdle
    /\ ResIdle
    /\ NestIdle
    /\ CapIdle
    /\ SlipIdle
    /\ QuarIdle
    /\ LinkIdle
    /\ MenuIdle
    /\ AggIdle
    /\ TxIdle
    /\ MAX_SEND_PHRS \in ConfiguredCaps
    /\ friends_pc = "idle"
    /\ friends_attempt = 0
    /\ balance = 0
    /\ send_amount = -1
    /\ transfers = <<>>

NextFriends ==
    \/ RunSendToFriends
    \/ TransferAttempt

SpecFriends == InitFriends /\ [][NextFriends]_vars

(***************************************************************************)
(* ZenithSwapModule.apply_slippage (src/src/tasks/zenith/swap.py).         *)
(* Python integers are unbounded and int / int is a float: the integers    *)
(* are kept as digit sequences and the division is rounded to the 53       *)
(* significant bits of a double.                                           *)
(***************************************************************************)
\* significant bits of a Python float
MANT_DIG == 53

RECURSIVE Pow2(_)
Pow2(k) == IF k = 0 THEN 1 ELSE 2 * Pow2(k - 1)

\* a Python integer is kept as its digits in base 2^16, most significant
\* first, <<>> for zero
BASE == Pow2(16)

RECURSIVE IntOf(_)
\* the digits of a natural number
IntOf(n) == IF n = 0 THEN <<>> ELSE Append(IntOf(n \div BASE), n % BASE)

\* appends a digit, keeping zero as <<>>
Push(b, digit) == IF b = <<>> /\ digit = 0 THEN <<>> ELSE Append(b, digit)

FrontOf(b) == SubSeq(b, 1, Len(b) - 1)

RECURSIVE IntAddC(_, _, _)
IntAddC(a, b, c) ==
    IF a = <<>> /\ b = <<>> THEN IntOf(c)
    ELSE LET x == IF a = <<>> THEN 0 ELSE a[Len(a)]
             y == IF b = <<>> THEN 0 ELSE b[Len(b)]
             fa == IF a = <<>> THEN <<>> ELSE FrontOf(a)
             fb == IF b = <<>> THEN <<>> ELSE FrontOf(b)
         IN  Push(IntAddC(fa, fb, (x + y + c) \div BASE), (x + y + c) % BASE)

\* a + b
IntAdd(a, b) == IntAddC(a, b, 0)

RECURSIVE IntMul(_, _)
\* b * k for a natural k up to 1000
IntMul(b, k) ==
    IF b = <<>> THEN <<>>
    ELSE IntAdd(Push(IntMul(FrontOf(b), k), 0), IntOf(b[Len(b)] * k))

RECURSIVE IntDivMod(_, _)
\* quotient and remainder of b by a natural d up to 1000
IntDivMod(b, d) ==
    IF b = <<>> THEN [q |-> <<>>, r |-> 0]
    ELSE LET p == IntDivMod(FrontOf(b), d)
             t == BASE * p.r + b[Len(b)]
         IN  [q |-> Push(p.q, t \div d), r |-> t % d]

\* a <= b
IntLeq(a, b) ==
    \/ Len(a) < Len(b)
    \/ /\ Len(a) = Len(b)
       /\ \/ a = b
          \/ \E i \in 1..Len(a) :
               /\ a[i] < b[i]
               /\ \A j \in 1..(i - 1) : a[j] = b[j]

\* 2^k
IntPow2(k) == <<Pow2(k % 16)>> \o [i \in 1..(k \div 16) |-> 0]

\* int.bit_length()
bit_length(a) ==
    IF a = <<>> THEN 0
    ELSE 16 * (Len(a) - 1) + CHOOSE k \in 1..16 : Pow2(k - 1) <= a[1] /\ a[1] < Pow2(k)

\* bit i of a, bit 0 the least significant
BitAt(a, i) ==
    IF i \div 16 >= Len(a) THEN 0
    ELSE (a[Len(a) - (i \div 16)] \div Pow2(i % 16)) % 2

\* a with its sh lowest bits cleared
ClearLow(a, sh) ==
    [j \in 1..Len(a) |->
        LET low == 16 * (Len(a) - j)
        IN  IF low >= sh THEN a[j]
            ELSE IF low + 16 <= sh THEN 0
            ELSE a[j] - (a[j] % Pow2(sh - low))]

\* int(n / d): the quotient rounded to the nearest float of MANT_DIG
\* significant bits, ties to even, then truncated
int_of_true_division(n, d) ==
    LET dm == IntDivMod(n, d)
        Q == dm.q
        L == bit_length(Q)
    IN  IF L = 0 THEN <<>>
        ELSE IF L > MANT_DIG
        THEN LET sh == L - MANT_DIG
                 guard == BitAt(Q, sh - 1)
                 sticky == \/ dm.r # 0
                           \/ \E i \in 0..(sh - 2) : BitAt(Q, i) = 1
                 up == guard = 1 /\ (sticky \/ BitAt(Q, sh) = 1)
             IN  IF up THEN IntAdd(ClearLow(Q, sh), IntPow2(sh))
                 ELSE ClearLow(Q, sh)
        ELSE LET k == MANT_DIG + 1 - L
                 lsb == IF k = 1 THEN BitAt(Q, 0) ELSE 1
                 up == /\ k <= 7
                       /\ \/ (d - dm.r) * Pow2(k) < d
                          \/ (d - dm.r) * Pow2(k) = d /\ lsb = 1
             IN  IF up THEN IntAdd(Q, <<1>>) ELSE Q

\* apply_slippage: int(amount_out * (100 - self.slippage) / 100)
apply_slippage(amount_out, slip) ==
    int_of_true_division(IntMul(amount_out, 100 - slip), 100)

\* amounts a quote returns, in the smallest unit of the token: small ones,
\* amounts around 10^18 and around 2^53
Quotes ==
    LET e9 == IntOf(1000000000)
        e18 == IntMul(IntMul(IntMul(e9, 1000), 1000), 1000)
        p53 == IntPow2(MANT_DIG)
    IN  {IntOf(0), IntOf(1), IntOf(19), IntOf(99), IntOf(1000000),
         IntOf(123456789), IntOf(2147483647), e18, IntAdd(e18, IntOf(1)),
         IntAdd(e18, IntOf(7)), IntAdd(p53, IntOf(1)), IntAdd(p53, IntOf(3))}

\* calculate_amount_out_minimum is called
CalculateAmountOutMinimum ==
    /\ slip_pc = "idle"
    /\ slip_pc' = "quote"
    /\ UNCHANGED <<slippage, quoted, amount_out_minimum>>
    /\ UNCHANGED exceptSlip

\* get_quote, apply_slippage
ApplySlippage ==
    /\ slip_pc = "quote"
    /\ \E amount_out \in Quotes :
         /\ quoted' = amount_out
         /\ amount_out_minimum' = apply_slippage(amount_out, slippage)
    /\ slip_pc' = "done"
    /\ UNCHANGED slippage
    /\ UNCHANGED exceptSlip

InitSlip ==
    /\ RouteIdle
    /\ ConfigIdle
    /\ ModuleIdle
    /\ RunIdle
    /\ HttpIdle
    /\ WalletIdle
    /\ PairIdle
    /\ CompIdle
    /\ ResIdle
    /\ NestIdle
    /\ CapIdle
    /\ QuarIdle
    /\ LinkIdle
    /\ MenuIdle
    /\ AggIdle
    /\ TxIdle
    /\ FriendsIdle
    /\ slippage \in 0..100
    /\ slip_pc = "idle"
    /\ quoted = <<>>
    /\ amount_out_minimum = <<>>

NextSlip ==
    \/ CalculateAmountOutMinimum
    \/ ApplySlippage

SpecSlip == InitSlip /\ [][NextSlip]_vars

(***************************************************************************)
(* CaptchaSolver.solve_captcha (src/src/api/captcha/solver.py)             *)
(***************************************************************************)
\* the error kinds solve_captcha re-raises at once
FatalErrors ==
    {"NoValidApiKeysError", "InsufficientBalanceError", "TaskCreationError",
     "TaskSolutionError"}

\* _find_working_api_key: no key configured, no key with a balance (a
\* balance request that raises counts as none), or a key
FindOutcomes == {"NoValidApiKeysError", "InsufficientBalanceError", "found"}

\* _create_captcha_task: a task id, an answer with errorId # 0, or an error
\* of _execute_http_request
CreateOutcomes == {"created", "TaskCreationError", "NetworkConnectionError"}

\* _get_task_solution and what _wait_for_solution reads in the answer
PollOutcomes ==
    {"ready", "processing", "no solution", "TaskSolutionError",
     "NetworkConnectionError"}

CapStep(step, outcome) ==
    [step |-> step, attempt |-> cap_attempt, outcome |-> outcome]

\* solve_captcha raises
CapRaises(error) ==
    /\ cap_pc' = "done"
    /\ cap_ret' = error

\* solve_captcha(): called
SolveCaptcha ==
    /\ cap_pc = "idle"
    /\ cap_pc' = "find"
    /\ UNCHANGED <<cap_attempt, poll_attempt, cap_log, cap_ret>>
    /\ UNCHANGED exceptCap

\* self._find_working_api_key(), before the loop
FindWorkingApiKey ==
    /\ cap_pc = "find"
    /\ \E outcome \in FindOutcomes :
         /\ cap_log' = Append(cap_log, CapStep("find", outcome))
         /\ IF outcome = "found"
            THEN /\ cap_pc' = "create"
                 /\ UNCHANGED cap_ret
            ELSE CapRaises(outcome)
    /\ UNCHANGED <<cap_attempt, poll_attempt>>
    /\ UNCHANGED exceptCap

\* the loop of solve_captcha: _create_captcha_task and the except clauses
CreateCaptchaTask ==
    /\ cap_pc = "create"
    /\ \E outcome \in CreateOutcomes :
         /\ cap_log' = Append(cap_log, CapStep("create", outcome))
         /\ IF outcome = "created"
            THEN /\ cap_pc' = "poll"
                 /\ poll_attempt' = 0
                 /\ UNCHANGED <<cap_attempt, cap_ret>>
            ELSE IF outcome \in FatalErrors
            THEN /\ CapRaises(outcome)
                 /\ UNCHANGED <<cap_attempt, poll_attempt>>
            ELSE IF cap_attempt = MAX_RETRY_ATTEMPTS - 1
            THEN /\ CapRaises("CaptchaServiceError")
                 /\ UNCHANGED <<cap_attempt, poll_attempt>>
            ELSE /\ cap_attempt' = cap_attempt + 1
                 /\ UNCHANGED <<cap_pc, poll_attempt, cap_ret>>
    /\ UNCHANGED exceptCap

\* one pass of the loop of _wait_for_solution; what it raises is re-raised by
\* solve_captcha
WaitForSolution ==
    /\ cap_pc = "poll"
    /\ \E outcome \in PollOutcomes :
         /\ cap_log' = Append(cap_log, CapStep("poll", outcome))
         /\ IF outcome = "ready"
            THEN /\ cap_pc' = "done"
                 /\ cap_ret' = "token"
                 /\ UNCHANGED poll_attempt
            ELSE IF outcome = "TaskSolutionError"
                    \/ poll_attempt = MAX_RETRY_ATTEMPTS - 1
            THEN /\ CapRaises("TaskSolutionError")
                 /\ UNCHANGED poll_attempt
            ELSE /\ poll_attempt' = poll_attempt + 1
                 /\ UNCHANGED <<cap_pc, cap_ret>>
    /\ UNCHANGED cap_attempt
    /\ UNCHANGED exceptCap

InitCap ==
    /\ RouteIdle
    /\ ConfigIdle
    /\ ModuleIdle
    /\ RunIdle
    /\ LibIdle

NextCap ==
    \/ SolveCaptcha
    \/ FindWorkingApiKey
    \/ CreateCaptchaTask
    \/ WaitForSolution

SpecCap == InitCap /\ [][NextCap]_vars

(***************************************************************************)
(* Route execution with the auto_route handler inside the route:           *)
(* process_route, execute_route, execute_single_task and                   *)
(* PharosBot.process_auto_route                                            *)
(***************************************************************************)
NestTaskNames == {"auto_route", "daily_check_in", "statistics_account"}

TopFrame == call_stack[Len(call_stack)]

\* the loop of execute_route in the innermost frame moves to its next entry
NextEntry == [call_stack EXCEPT ![Len(call_stack)].idx = @ + 1]

\* process_route for the account: get_validated_route, then execute_route
ProcessRouteCall ==
    /\ nest_pc = "start"
    /\ \E built \in create_optimized_route(nest_tasks) :
         /\ top_route' = validate_route(built)
         /\ call_stack' = <<[route |-> validate_route(built), idx |-> 0]>>
    /\ nest_pc' = "exec"
    /\ UNCHANGED <<nest_tasks, handler_calls>>
    /\ UNCHANGED exceptNest

\* execute_single_task on an auto_route entry: process_auto_route calls
\* process_route, which builds the route of ROUTE_TASK again and executes it;
\* at the interpreter's recursion limit the call raises RecursionError, which
\* the except clause of execute_single_task turns into a failed entry
ProcessAutoRoute ==
    /\ nest_pc = "exec"
    /\ TopFrame.idx < Len(TopFrame.route)
    /\ TopFrame.route[TopFrame.idx + 1] = "auto_route"
    /\ handler_calls' = Append(handler_calls, "auto_route")
    /\ IF Len(call_stack) < MaxNesting
       THEN \E built \in create_optimized_route(nest_tasks) :
              call_stack' = Append(call_stack,
                                   [route |-> validate_route(built), idx |-> 0])
       ELSE call_stack' = NextEntry
    /\ UNCHANGED <<nest_pc, nest_tasks, top_route>>
    /\ UNCHANGED exceptNest

\* execute_single_task on any other entry: the handler runs and its result,
\* returned or raised, is stored
ExecuteTask ==
    /\ nest_pc = "exec"
    /\ TopFrame.idx < Len(TopFrame.route)
    /\ TopFrame.route[TopFrame.idx + 1] # "auto_route"
    /\ handler_calls' = Append(handler_calls, TopFrame.route[TopFrame.idx + 1])
    /\ call_stack' = NextEntry
    /\ UNCHANGED <<nest_pc, nest_tasks, top_route>>
    /\ UNCHANGED exceptNest

\* process_route returns its pair: to the execute_single_task that invoked
\* the auto_route handler, or to the caller of the outermost call
ProcessRouteReturn ==
    /\ nest_pc = "exec"
    /\ TopFrame.idx = Len(TopFrame.route)
    /\ LET popped == SubSeq(call_stack, 1, Len(call_stack) - 1)
       IN  IF popped = <<>>
           THEN /\ call_stack' = popped
                /\ nest_pc' = "done"
           ELSE /\ call_stack' = [popped EXCEPT ![Len(popped)].idx = @ + 1]
                /\ UNCHANGED nest_pc
    /\ UNCHANGED <<nest_tasks, top_route, handler_calls>>
    /\ UNCHANGED exceptNest

InitNest ==
    /\ RouteIdle
    /\ ConfigIdle
    /\ ModuleIdle
    /\ RunIdle
    /\ HttpIdle
    /\ WalletIdle
    /\ PairIdle
    /\ CompIdle
    /\ ResIdle
    /\ CapIdle
    /\ QuarIdle
    /\ LinkIdle
    /\ MenuIdle
    /\ AggIdle
    /\ TxIdle
    /\ FriendsIdle
    /\ SlipIdle
    /\ nest_pc = "start"
    /\ nest_tasks \in SeqsUpTo(NestTaskNames, MaxExecLen)
    /\ top_route = <<>>
    /\ call_stack = <<>>
    /\ handler_calls = <<>>

NextNest ==
    \/ ProcessRouteCall
    \/ ProcessAutoRoute
    \/ ExecuteTask
    \/ ProcessRouteReturn

SpecNest == InitNest /\ [][NextNest]_vars

(***************************************************************************)
(* Resources of a handler: the wallet's RPC transports and the HTTP        *)
(* session of the module, from the invocation of the handler to its end    *)
(***************************************************************************)
ResHandlers == {"connect_wallet", "send_to_friends", "swap_zenith"}

\* how PharosBot's handler uses the module object: inside async with or
\* not, and whether the module's __aenter__ opens an HTTPClient
handler_resources(h) ==
    CASE h = "connect_wallet"  -> [context_manager |-> TRUE, http |-> TRUE]
      [] h = "send_to_friends" -> [context_manager |-> TRUE, http |-> TRUE]
      [] h = "swap_zenith"     -> [context_manager |-> FALSE, http |-> FALSE]

\* the handler is invoked: the module object is constructed (Wallet.__init__
\* makes the first provider) and, under async with, __aenter__ runs
InvokeHandler ==
    /\ res_pc = "idle"
    /\ \E h \in ResHandlers :
         /\ res_handler' = h
         /\ api_client' = IF handler_resources(h).context_manager
                             /\ handler_resources(h).http
                          THEN "open" ELSE "none"
    /\ providers' = <<"unused">>
    /\ res_pc' = "running"
    /\ UNCHANGED <<res_calls, res_outcome>>
    /\ UNCHANGED exceptRes

\* one RPC request of the run operation through self._provider, which opens
\* its transport; on an RPC-related error retry_with_rpc_switch calls
\* _switch_rpc_url, and _create_web3 replaces the provider
WalletRequest ==
    /\ res_pc = "running"
    /\ res_calls < MaxWalletCalls
    /\ res_calls' = res_calls + 1
    /\ \E rpc_error \in BOOLEAN :
         LET used == [providers EXCEPT ![Len(providers)] = "open"]
         IN  providers' = IF rpc_error THEN Append(used, "unused") ELSE used
    /\ UNCHANGED <<res_pc, res_handler, api_client, res_outcome>>
    /\ UNCHANGED exceptRes

\* the run operation returns or raises; under async with __aexit__ closes
\* the HTTPClient and Wallet.close disconnects self._provider
HandlerEnds ==
    /\ res_pc = "running"
    /\ res_outcome' \in {"returned", "raised"}
    /\ IF handler_resources(res_handler).context_manager
       THEN /\ api_client' = IF api_client = "open" THEN "closed" ELSE api_client
            /\ providers' = [providers EXCEPT ![Len(providers)] = "closed"]
       ELSE UNCHANGED <<api_client, providers>>
    /\ res_pc' = "ended"
    /\ UNCHANGED <<res_handler, res_calls>>
    /\ UNCHANGED exceptRes

InitRes ==
    /\ RouteIdle
    /\ ConfigIdle
    /\ ModuleIdle
    /\ RunIdle
    /\ LibIdle

NextRes ==
    \/ InvokeHandler
    \/ WalletRequest
    \/ HandlerEnds

SpecRes == InitRes /\ [][NextRes]_vars

(***************************************************************************)
(* Claims about the route builder                                          *)
(***************************************************************************)
\* position of the first occurrence of name in r (0 when absent)
FirstPos(r, name) ==
    IF name \in Range(r)
    THEN CHOOSE i \in 1..Len(r) : r[i] = name /\ \A j \in 1..(i - 1) : r[j] # name
    ELSE 0

\* positions of r that hold one of the tasks left for the final shuffle or
\* statistics_account: not the leading full_registration, connect_wallet and
\* full_faucets, not a social connection, not a faucet
RemainingPositions(r) ==
    {j \in 1..Len(r) :
        /\ r[j] \notin social_connections \cup faucet_list
        /\ j \notin {FirstPos(r, "full_registration"), FirstPos(r, "connect_wallet"),
                     FirstPos(r, "full_faucets")}}

\* C5: whatever the configured list and the shuffles, the built route has
\* full_registration first, connect_wallet directly after it, the social
\* connections before full_faucets, the faucets after full_faucets and before
\* every other remaining task, and statistics_account last (each when present;
\* for a name configured more than once the placed entry is its first one).
C5_RoutePriorities ==
    rpc # "start" =>
      LET r == initial_route
          t == ROUTE_TASK
      IN  /\ "full_registration" \in Range(t) => r[1] = "full_registration"
          /\ ({"full_registration", "connect_wallet"} \subseteq Range(t)) =>
                r[2] = "connect_wallet"
          /\ \A i, j \in 1..Len(r) :
                (r[i] \in social_connections /\ r[j] = "full_faucets") => i < j
          /\ \A i \in 1..Len(r) :
                r[i] \in faucet_list =>
                  /\ "full_faucets" \in Range(t) => FirstPos(r, "full_faucets") < i
                  /\ \A j \in RemainingPositions(r) : i < j
          /\ "statistics_account" \in Range(t) => r[Len(r)] = "statistics_account"

\* a route was built from a list that names a social connection after
\* full_faucets, a faucet before it and statistics_account first
C5_Witness ==
    /\ rpc # "start"
    /\ Len(ROUTE_TASK) = 4
    /\ ROUTE_TASK[1] = "statistics_account"
    /\ ROUTE_TASK[2] \in faucet_list
    /\ ROUTE_TASK[3] = "full_faucets"
    /\ ROUTE_TASK[4] \in social_connections
    /\ initial_route[1] = ROUTE_TASK[4]

RECURSIVE IsSubsequence(_, _)
IsSubsequence(a, b) ==
    IF a = <<>> THEN TRUE
    ELSE IF b = <<>> THEN FALSE
    ELSE IF Head(a) = Head(b) THEN IsSubsequence(Tail(a), Tail(b))
    ELSE IsSubsequence(a, Tail(b))

\* C6: validation removes exactly the names without a registered handler,
\* keeps the order of the others, and the excluded count is the number of
\* removed entries.
C6_ValidationExact ==
    rpc # "start" =>
      /\ \A n \in Range(initial_route) \cup Range(route) :
            Count(route, n) = IF n \in available_functions
                              THEN Count(initial_route, n) ELSE 0
      /\ IsSubsequence(route, initial_route)
      /\ excluded_count =
            Cardinality({i \in 1..Len(initial_route) :
                            initial_route[i] \notin available_functions})

\* exactly one unknown name, in front of two known ones, was excluded
C6_Witness ==
    /\ rpc # "start"
    /\ Len(initial_route) = 3
    /\ initial_route[1] = "swap_faroswap"
    /\ Len(route) = 2
    /\ excluded_count = 1

(***************************************************************************)
(* Claims about the route executor                                         *)
(***************************************************************************)
Failing(behaviour) ==
    behaviour.kind = "raise" \/ (behaviour.kind = "pair" /\ ~behaviour.ok)

FailureMessage(behaviour) ==
    IF behaviour.kind = "raise" THEN "Error: " \o behaviour.text
    ELSE behaviour.text

\* C7: the tasks of the validated route are invoked once each, in route
\* order; a task that fails or raises is recorded as that task's failure and
\* the tasks after it are still invoked.
C7_RouteOrder ==
    /\ [](/\ Len(calls) = idx
          /\ Len(outcomes) = idx
          /\ idx <= Len(route)
          /\ \A i \in 1..idx : calls[i] = route[i]
          /\ (rpc = "done" /\ route # <<>>) => calls = route)
    /\ [][calls' # calls =>
            /\ calls' = Append(calls, route[idx + 1])
            /\ Len(outcomes') = Len(calls')
            /\ LET behaviour == outcomes'[Len(calls')]
               IN  Failing(behaviour) =>
                     /\ route[idx + 1] \in DOMAIN results'
                     /\ results'[route[idx + 1]] =
                           [success |-> FALSE,
                            message |-> FailureMessage(behaviour)]]_vars

\* a route of three tasks ran to its end although its first task raised and
\* its second one failed
C7_Witness ==
    /\ rpc = "done"
    /\ Len(route) = 3
    /\ calls = route
    /\ outcomes[1].kind = "raise"
    /\ outcomes[2].kind = "pair" /\ ~outcomes[2].ok
    /\ outcomes[3].ok

\* C8 (as claimed): process_route reports success exactly when some task of
\* the route succeeded, and the message counts the tasks that succeeded over
\* the tasks that were run.
C8_RouteOutcome ==
    (rpc = "done" /\ route # <<>>) =>
      LET succeeded == {i \in 1..Len(outcomes) : outcomes[i].ok}
      IN  /\ route_ret.success <=> succeeded # {}
          /\ route_ret.message =
                "Completed: " \o ToString(Cardinality(succeeded)) \o "/"
                \o ToString(Len(calls)) \o " ("
                \o FormatRate(Cardinality(succeeded), Len(calls)) \o "%)"

(***************************************************************************)
(* Claims about the batch orchestrator                                     *)
(***************************************************************************)
\* C1: at no moment of a module run are more accounts inside the
\* permit-guarded section of process_single_account (start delay, handler
\* call, result recording) than the configured thread count, whatever the
\* roster size and whichever way the roster is cut into batches.
C1_PermitCap == Cardinality(InSection) <= threads

\* a batch larger than the thread count: the section is full and a task of
\* the batch is held back at the permit
C1_Witness ==
    /\ batch_size > threads
    /\ Cardinality(InSection) = threads
    /\ \E a \in Roster : tpc[a] = "waiting"

\* accounts whose handler raised in the run at hand
RaisedFor(a) ==
    /\ hlog[a] # <<>>
    /\ hlog[a][Len(hlog[a])].behaviour.kind = "raise"
    /\ config_module # "auto_route"

RunActive == opc \in {"batch", "gather", "report", "stats", "sleep"}

\* C2: over a roster of K accounts a handler that raises for one account
\* does not stop the others: every account is counted in processed exactly
\* once, an account whose handler raised is counted as processed and not as
\* successful and is recorded in the aggregator as a failure carrying the
\* exception text, and when the run finishes processed = K.
C2_RaiseIsolated ==
    RunActive =>
        /\ progress.processed = Cardinality(Counted)
        /\ progress.success =
              Cardinality({a \in Counted : ~RaisedFor(a) /\ hres[a].success})
        /\ \A a \in Roster :
              (RaisedFor(a) /\ tpc[a] = "done") =>
                  /\ a \in DOMAIN execution_results
                  /\ config_module \in DOMAIN execution_results[a].module_results
                  /\ execution_results[a].module_results[config_module] =
                        [is_successful |-> FALSE,
                         status_message |-> hlog[a][1].behaviour.text]
                  /\ ~execution_results[a].overall_success
        /\ opc \in {"report", "stats", "sleep"} =>
              /\ progress.processed = accounts
              /\ \A a \in Roster : tpc[a] = "done"

\* a finished run of two accounts: one handler raised, the other succeeded
C2_Witness ==
    /\ opc = "report"
    /\ accounts = 2
    /\ progress.processed = 2
    /\ progress.success = 1
    /\ \E a, b \in Roster :
          /\ RaisedFor(a)
          /\ ~RaisedFor(b)
          /\ hres[b].success

\* C9: auto-route cycles are strictly sequential: within cycle k every
\* account's handler has finished before the report and the final statistics
\* of the cycle are emitted; the report and the sleep of cycle k are over
\* before any account of cycle k+1 starts; the progress counters and the
\* aggregator start every cycle from zero.
C9_CyclesSequential ==
    config_module = "auto_route" =>
        /\ opc \in {"report", "stats", "sleep"} =>
              \A a \in Roster : tpc[a] = "done"
        /\ (\E a \in Roster : tpc[a] # "idle") =>
              /\ cycle >= 1
              /\ sleeps_done = cycle - 1
              /\ opc \in {"batch", "gather"} =>
                    /\ stats_logged = cycle - 1
                    /\ send_stats_to_telegram => reports_sent = cycle - 1
        /\ (opc = "batch" /\ batch_i = 0) =>
              /\ progress = [processed |-> 0, success |-> 0, total |-> accounts]
              /\ execution_results = EmptyDict
        /\ opc \in {"batch", "gather"} =>
              DOMAIN execution_results = {a \in Roster : tpc[a] = "done"}

\* an account of the second cycle is in its handler after one report, one
\* statistics log and one sleep
C9_Witness ==
    /\ config_module = "auto_route"
    /\ cycle = 2
    /\ sleeps_done = 1
    /\ stats_logged = 1
    /\ \E a \in Roster : tpc[a] = "handler"

\* the route tasks the handler of account a executed
ExecutedTasks(a) == {hlog[a][i].task : i \in DOMAIN hlog[a]}

\* C10: in an auto-route cycle the aggregator holds, for each account, one
\* recorded result per executed route task under the task's own name with
\* the task's own success, so the report counts each task separately.
C10_PerTaskResults ==
    config_module = "auto_route" =>
        \A a \in Roster :
            tpc[a] = "done" =>
                /\ a \in DOMAIN execution_results
                /\ DOMAIN execution_results[a].module_results = ExecutedTasks(a)
                /\ \A i \in DOMAIN hlog[a] :
                      execution_results[a].module_results[hlog[a][i].task].is_successful
                         = execute_single_task(hlog[a][i].behaviour).success

(***************************************************************************)
(* Claims about the run operations                                         *)
(***************************************************************************)
\* C3: no run operation of a task module lets an exception escape: for every
\* failure of an HTTP or RPC call made during it, the operation returns
\* (False, message) and does not raise.
C3_NoEscape == run_ret.kind # "raise"

\* C4: every registered task handler returns a pair (success, message) on
\* every path, so that the unpacking of execute_single_task records the
\* handler's own success flag and message for the task.
C4_PairRecorded ==
    (run_pc = "recorded" /\ run_ret.kind # "raise") =>
        /\ run_ret.kind = "pair"
        /\ run_rec = [success |-> run_ret.ok, message |-> run_ret.text]

\* C11: the aggregated Telegram report is sent exactly once per module run
\* (once per auto-route cycle), for every selected module and both values of
\* the repeat flag, when Telegram reporting is on and the roster is not
\* empty.
C11_ReportOncePerRun ==
    (send_stats_to_telegram /\ accounts > 0 /\ config_module # "") =>
        IF config_module = "auto_route"
        THEN /\ reports_sent <= cycle
             /\ opc \in {"sleep", "report_last", "stats_last", "menu"} =>
                   reports_sent = cycle
        ELSE /\ reports_sent <= 1
             /\ opc = "menu" => reports_sent = 1

(***************************************************************************)
(* Claims about HTTPClient.send_request                                    *)
(***************************************************************************)
IsClientStatus(outcome) ==
    outcome.kind = "status" /\ outcome.status_code >= 400 /\ outcome.status_code < 500

IsServerStatus(outcome) ==
    outcome.kind = "status" /\ outcome.status_code >= 500

CapturedType(outcome) ==
    CASE outcome.kind = "status" ->
           IF validate_status /\ outcome.status_code >= 500
           THEN "APIServerSideError" ELSE "None"
      [] outcome.exception = "ClientSSLError" -> "APISSLError"
      [] outcome.exception \in {"ClientConnectorError", "ServerDisconnectedError"} ->
           "APIConnectionError"
      [] outcome.exception = "TimeoutError" -> "APITimeoutError"
      [] outcome.exception = "ClientPayloadError" -> "ClientPayloadError"
      [] OTHER -> "None"

EveryAttemptFailed ==
    /\ http_pc = "done"
    /\ Len(http_log) = max_retries
    /\ \A i \in 1..Len(http_log) : CapturedType(http_log[i]) # "None"

C14_ThreeAttempts ==
    (/\ Len(wallet_log) = func_calls
     /\ \A i \in 1..Len(wallet_log) : wallet_log[i] \in TransientMessages) =>
        /\ func_calls <= 3
        /\ (Len(wallet_log) = 3 /\ wallet_pc = "done") =>
              wallet_ret = [kind |-> "raise", error |-> "BlockchainError"]

\* C15: when a wrapped call raises an error whose message holds none of the
\* transient-condition substrings, the error is re-raised on that attempt,
\* the wrapped operation is not called again, and current_rpc_index and the
\* web3 client stay as they were.
C15_OtherErrorReraised ==
    [][/\ (/\ Len(wallet_log') = Len(wallet_log) + 1
           /\ wallet_log'[Len(wallet_log')] \in OtherMessages)
          => /\ wallet_ret' = [kind |-> "raise",
                               error |-> wallet_log'[Len(wallet_log')]]
             /\ wallet_pc' = "done"
             /\ current_rpc_index' = current_rpc_index
             /\ web3' = web3
       /\ wallet_pc = "done"
          => /\ wallet_pc' = "done"
             /\ func_calls' = func_calls]_vars

\* after one switch of endpoint, a call fails with an error that is not
\* RPC-related
C15_Witness ==
    /\ wallet_pc = "done"
    /\ Len(wallet_log) = 2
    /\ wallet_log[1] \in TransientMessages
    /\ wallet_log[2] \in OtherMessages
    /\ rpc_urls = 2
    /\ current_rpc_index = 1

(***************************************************************************)
(* Claims about validate_pair_swap                                         *)
(***************************************************************************)
\* two distinct non-empty token symbols and a percentage > 0
ActiveEntry(e) ==
    /\ e.token_out # ""
    /\ e.token_in # ""
    /\ lower(e.token_out) # lower(e.token_in)
    /\ e.min_amount > 0

EmptyEntry(e) == e.token_out = "" /\ e.token_in = ""

\* C16: validate_pair_swap accepts a table if and only if at least one entry
\* has two distinct non-empty token symbols with percentage > 0 and every
\* entry with two empty token symbols has percentage exactly 0; a table
\* mixing an active entry with a fully empty entry of percentage 0 is
\* accepted. Stated over the tables made of active and fully empty entries.
C16_PairTableAccepted ==
    (/\ pair_pc = "done"
     /\ \A i \in 1..Len(pair_table) :
           ActiveEntry(pair_table[i]) \/ EmptyEntry(pair_table[i])) =>
        (pair_ret.kind = "result" <=>
            /\ \E i \in 1..Len(pair_table) : ActiveEntry(pair_table[i])
            /\ \A i \in 1..Len(pair_table) :
                  EmptyEntry(pair_table[i]) => pair_table[i].min_amount = 0)

(***************************************************************************)
(* Claims about the already-satisfied answers of the backends              *)
(***************************************************************************)
\* the answer that tells the run operation its daily action was already done:
\* the message the operation reads from the answer (code 1 of the Pharos API,
\* any answer but "ok" of the Zenith router)
AlreadySatisfied(op, answer) ==
    \/ /\ op = "run_daily_check_in"
       /\ answer.code = 1
       /\ answer.message = <<ALREADY_SIGNED_IN>>
    \/ /\ op = "official_faucet.run_faucet"
       /\ answer.code = 1
       /\ answer.message = <<FAUCET_DID_NOT_COOLDOWN>>
    \/ /\ op = "zenith_faucet.run_faucet"
       /\ is_in(HAS_ALREADY_GOT_TOKEN, answer.message)

SuccessPair(ret) ==
    /\ ret.kind = "pair"
    /\ ret.ok
    /\ ret.text \in {"It hasn't even been 24 hours since the last Daily Check-in",
                     "It hasn't been 24 hours since the last Faucet $PHRS",
                     "It hasn't been 24 hours since the last Stablecoins faucet"}

\* C17: when the backend answers an attempt with its already-satisfied
\* message, the run operation returns (True, message) on that very attempt
\* (the attempt counter stays where it was, one logged line per earlier
\* attempt), and every call of the handler answered that way returned
\* (True, message).
C17_AlreadySatisfiedIsSuccess ==
    /\ (run_op \in answers_backend /\ AlreadySatisfied(run_op, backend_answer))
         => /\ run_pc \in {"returned", "recorded"}
            /\ SuccessPair(run_ret)
            /\ attempt = Len(run_log)
            /\ attempt < MAX_RETRY_ATTEMPTS
    /\ \A i \in 1..Len(run_history) :
         (run_op \in answers_backend /\ AlreadySatisfied(run_op, run_history[i].answer))
           => SuccessPair(run_history[i].ret)

\* two calls of the daily check-in in a row, the second one answered
\* "already signed in today" on a later attempt, both returning True
C17_Witness ==
    /\ run_op = "run_daily_check_in"
    /\ Len(run_history) = 2
    /\ run_history[1].ret.ok
    /\ run_history[1].ret.text = "Successfully Daily Check-in"
    /\ AlreadySatisfied(run_op, run_history[2].answer)
    /\ SuccessPair(run_history[2].ret)
    /\ attempt = 1

(***************************************************************************)
(* Claims about the composite modules                                      *)
(***************************************************************************)
StageSucceeded(outcome) == outcome.kind = "pair" /\ outcome.ok

\* C18: run_full_registration and run_faucets execute every stage whatever a
\* stage returns or raises (nothing is returned or raised before the last
\* stage has run), and return success exactly when every stage succeeded.
C18_AllStagesAlways ==
    /\ comp_pc = "stages" => comp_ret = NoReturn
    /\ comp_pc = "done" =>
         /\ Len(comp_outcomes) = Len(Stages(comp_op))
         /\ comp_ret.kind = "pair"
         /\ comp_ret.ok <=> \A i \in 1..Len(comp_outcomes) : StageSucceeded(comp_outcomes[i])

\* the wallet stage raises, the other two stages still run and succeed, and
\* the registration reports failure
C18_Witness ==
    /\ comp_op = "run_full_registration"
    /\ comp_pc = "done"
    /\ comp_outcomes[1].kind = "raise"
    /\ StageSucceeded(comp_outcomes[2])
    /\ StageSucceeded(comp_outcomes[3])
    /\ comp_results[1].message = "Unexpected error during wallet connection: timeout"
    /\ comp_ret = ReturnedPair(FALSE, "Partial registration completed with warnings 2/3")

(***************************************************************************)
(* Claims about the bad-token quarantine store                             *)
(***************************************************************************)
LinesFor(lines, token) ==
    Cardinality({i \in 1..Len(lines) : lines[i] = token})

\* task a entered process_bad_token before task b
EnteredBefore(a, b) ==
    \E i, j \in 1..Len(quar_order) :
        /\ quar_order[i] = a
        /\ quar_order[j] = b
        /\ i < j

\* two finished calls for the same column and the same token
SameTokenTwice(a, b) ==
    /\ a # b
    /\ quar_pc[a] = "returned"
    /\ quar_pc[b] = "returned"
    /\ quar_arg[a].column = quar_arg[b].column
    /\ strip(quar_arg[a].token) = strip(quar_arg[b].token)
    /\ strip(quar_arg[a].token) # ""
    /\ EnteredBefore(a, b)

InProcessBadToken(t) ==
    quar_pc[t] \in {"save", "append", "remove", "unlock"}

\* C20: at most one account task is inside process_bad_token at any time,
\* and no token is in a quarantine file twice, however the tasks interleave.
C20_Serialized ==
    /\ Cardinality({t \in AccountTasks : InProcessBadToken(t)}) <= 1
    /\ \A t \in AccountTasks : InProcessBadToken(t) => file_operation_lock = t
    /\ \A column \in TokenColumns, token \in SessionTokens :
         LinesFor(bad_tokens_file[column], token) <= 1

\* task 1 has read the quarantine file and not yet appended its token while
\* task 2, given the same token, waits for the lock
C20_Witness ==
    /\ quar_pc[1] = "append"
    /\ quar_pc[2] = "lock"
    /\ quar_arg[1] = quar_arg[2]
    /\ quar_arg[1].token = "tokA"
    /\ "tokA" \notin bad_tokens[1]

(***************************************************************************)
(* Claims about linking a social account                                   *)
(***************************************************************************)
TerminalLinkError(platform, outcome) ==
    link_account(platform, outcome) \in {"InvalidTokenError", "AccountSuspendedError"}

\* C21: in run_connect_twitter an invalid-token or suspended-account error
\* ends the operation with a failure on the attempt where it occurs; every
\* other error is retried until the third attempt; link_twitter_account is
\* called at most MAX_RETRY_ATTEMPTS times; each attempt opens one session,
\* closed before the next attempt or the return.
C21_TwitterLinkAttempts ==
    link_platform = "twitter" =>
        /\ Len(link_log) <= MAX_RETRY_ATTEMPTS
        /\ \A i \in 1..Len(link_log) :
             TerminalLinkError("twitter", link_log[i]) =>
                 /\ i = Len(link_log)
                 /\ link_pc = "done"
                 /\ link_ret.kind = "pair"
                 /\ ~link_ret.ok
        /\ (link_pc = "done" /\ ~link_ret.ok /\ link_log # <<>>
              /\ ~TerminalLinkError("twitter", link_log[Len(link_log)]))
             => Len(link_log) = MAX_RETRY_ATTEMPTS
        /\ session_open <=> link_pc = "linking"
        /\ sessions_opened = Len(link_log) + (IF session_open THEN 1 ELSE 0)

\* a network error and a rate-limit error are retried, the third attempt
\* meets an invalid token and ends the operation
C21_Witness ==
    /\ link_platform = "twitter"
    /\ link_pc = "done"
    /\ Len(link_log) = 3
    /\ link_log[1].class = "NetworkError"
    /\ link_log[2].class = "RateLimitError"
    /\ link_log[3] = [kind |-> "bind", status |-> 401, class |-> ""]
    /\ link_ret = ReturnedPair(FALSE, "Invalid or expired Twitter authorization token")
    /\ sessions_opened = 3

\* C22: a 409 answer of the bind endpoint is a terminal failure: no further
\* attempt is started after it (no session opened, link_*_account not called
\* again) and the run operation returns a failure.
C22_ConflictIsTerminal ==
    \A i \in 1..Len(link_log) :
        (link_log[i].kind = "bind" /\ link_log[i].status = 409) =>
            /\ i = Len(link_log)
            /\ link_pc # "linking"
            /\ link_pc = "done" => ~link_ret.ok

(***************************************************************************)
(* Claims about the console menu                                           *)
(***************************************************************************)
\* the step is a line typed at the menu
Typed == menu_inputs' = menu_inputs + 1

Children == MenuChildren(current_menu)

\* C23: 0 at the root ends the loop with (exit, no action); 0 in a submenu
\* makes the parent the current menu and the loop goes on; the 1-based index
\* of a child with children makes it the current menu; the 1-based index of a
\* leaf ends the loop with (no exit, its action); build() starts at the root.
C23_MenuNavigation ==
    [][/\ (Typed /\ menu_input'.numeric /\ menu_input'.value = 0) =>
            IF MenuParent(current_menu) = ""
            THEN ~running' /\ should_exit' /\ selected_action' = ""
            ELSE /\ current_menu' = MenuParent(current_menu)
                 /\ running' /\ ~should_exit' /\ selected_action' = ""
       /\ (Typed /\ menu_input'.numeric /\ menu_input'.value \in 1..Len(Children)) =>
            IF MenuChildren(Children[menu_input'.value]) # <<>>
            THEN /\ current_menu' = Children[menu_input'.value]
                 /\ running' /\ ~should_exit' /\ selected_action' = ""
            ELSE /\ ~running' /\ ~should_exit'
                 /\ selected_action' = Children[menu_input'.value]
       /\ builds' = builds + 1 =>
            /\ current_menu' = "Main Menu"
            /\ running' /\ ~should_exit' /\ selected_action' = ""
      ]_vars

\* the second build() started at the root again, went into a submenu, back
\* and into Faucets, where 3 selected the leaf zenith_faucet
C23_Witness ==
    /\ builds = 2
    /\ menu_inputs = 3
    /\ current_menu = "Faucets"
    /\ ~running
    /\ selected_action = "zenith_faucet"
    /\ menu_input = [numeric |-> TRUE, value |-> 3]

\* C24: a line that is not a number, or an integer outside 0..n in a menu of
\* n children, changes nothing: the same menu is shown again, no action is
\* selected and the exit flag stays as it was.
C24_InvalidInputRejected ==
    [][(Typed /\ (~menu_input'.numeric \/ menu_input'.value \notin 0..Len(Children))) =>
          UNCHANGED <<current_menu, selected_action, should_exit, running>>
      ]_vars

(***************************************************************************)
(* Claims about the task registry                                          *)
(***************************************************************************)
\* the module names the comment under ROUTE_TASK lists for route generation
DocumentedModules ==
    {"daily_check_in", "full_registration", "connect_wallet", "connect_twitter",
     "connect_discord", "full_faucets", "phrs_faucet", "zenith_faucet",
     "send_to_friends", "swap_zenith", "swap_faroswap", "statistics_account",
     "connect_twitter_zenith", "twitter_tasks", "mint_pharos_badge", "mint_pharos_nft"}

\* C25: every documented module name has a handler in the registry, so a
\* documented name of ROUTE_TASK is never dropped by the validation and the
\* excluded count stays 0 for a list of documented names.
C25_DocumentedHaveHandlers ==
    rpc # "start" =>
      /\ \A n \in Range(ROUTE_TASK) :
            n \in DocumentedModules => n \in available_functions /\ n \in Range(route)
      /\ Range(ROUTE_TASK) \subseteq DocumentedModules => excluded_count = 0

(***************************************************************************)
(* Claims about the aggregator                                             *)
(***************************************************************************)
\* the last call recorded for a wallet and a module since the last clear
LastCall(w, m) ==
    LET at == {i \in 1..Len(agg_calls) :
                  agg_calls[i].wallet = w /\ agg_calls[i].module = m}
    IN  agg_calls[CHOOSE i \in at : \A j \in at : j <= i]

\* the modules recorded for a wallet since the last clear
RecordedModules(w) ==
    {agg_calls[i].module : i \in {j \in 1..Len(agg_calls) : agg_calls[j].wallet = w}}

\* C26: after any calls of add_execution_result since the last clear, every
\* account that has a result has one entry per recorded module, holding the
\* latest result for it; overall_success is the conjunction of the entries,
\* the two counts are the numbers of successful and of all entries, and the
\* percentage is their ratio (in hundredths of a percent).
C26_AggregateAccounting ==
    /\ DOMAIN agg_results = {agg_calls[i].wallet : i \in 1..Len(agg_calls)}
    /\ \A w \in DOMAIN agg_results :
         LET r == agg_results[w]
             good == {m \in RecordedModules(w) : LastCall(w, m).ok}
         IN  /\ DOMAIN r.module_results = RecordedModules(w)
             /\ \A m \in RecordedModules(w) :
                  r.module_results[m].is_successful = LastCall(w, m).ok
             /\ r.overall_success <=> good = RecordedModules(w)
             /\ successful_modules_count(r) = Cardinality(good)
             /\ total_modules_count(r) = Cardinality(RecordedModules(w))
             /\ success_percentage(r) * total_modules_count(r)
                  \in (10000 * Cardinality(good) - total_modules_count(r))
                        .. (10000 * Cardinality(good) + total_modules_count(r))

\* four modules recorded for one account, three successful and one failed
\* (the first one): 3, 4 and 75.00
C26_Witness ==
    /\ Len(agg_calls) = 4
    /\ "0xA" \in DOMAIN agg_results
    /\ ~agg_calls[1].ok
    /\ successful_modules_count(agg_results["0xA"]) = 3
    /\ total_modules_count(agg_results["0xA"]) = 4
    /\ success_percentage(agg_results["0xA"]) = 7500
    /\ ~agg_results["0xA"].overall_success

(***************************************************************************)
(* Claims about wallet transactions                                        *)
(***************************************************************************)
\* the step just taken is the end of a wait for the receipt
ReceiptWaitEnded ==
    /\ tx_pc = "wait"
    /\ Len(tx_log') = Len(tx_log) + 1
    /\ tx_log'[Len(tx_log')].step = "wait"

\* C27: when the 60-second wait for the receipt of a broadcast transaction
\* times out, send_and_verify_transaction returns the pending outcome with
\* the hash of that transaction and the operation ends without another
\* broadcast; a receipt with status 1 returns success with the hash, a
\* receipt with another status returns the reverted failure with the hash.
C27_ReceiptOutcomes ==
    [][/\ ReceiptWaitEnded =>
            LET outcome == tx_log'[Len(tx_log')].outcome
                hash == hash_of(transaction.nonce)
            IN  /\ outcome = TIMEOUT =>
                      /\ send_ret' = [ok |-> FALSE, kind |-> "pending", hash |-> hash]
                      /\ tx_pc' = "done"
                      /\ ~tx_ret'.ok
                /\ outcome = "status 1" =>
                      send_ret' = [ok |-> TRUE, kind |-> "success", hash |-> hash]
                /\ outcome = "status 0" =>
                      send_ret' = [ok |-> FALSE, kind |-> "reverted", hash |-> hash]
       /\ tx_pc = "done" => UNCHANGED txVars
      ]_vars

\* a transaction was broadcast after a nonce correction, its receipt did not
\* come in time and the call ended with the pending outcome
C27_Witness ==
    /\ tx_call = "send"
    /\ tx_pc = "done"
    /\ tx_depth = 1
    /\ Len(tx_log) = 4
    /\ tx_log[3].outcome = "accepted"
    /\ tx_log[4] = [step |-> "wait", nonce |-> 2, amount |-> 0, outcome |-> TIMEOUT]
    /\ tx_ret = [ok |-> FALSE, kind |-> "pending", hash |-> 102]

\* C28: a "nonce too low" failure sets the nonce strictly above the failed
\* one and re-sends once; a second "nonce too low" failure is not corrected
\* again, so there is at most one correction per call.
C28_OneCorrectiveRetry ==
    /\ \A i \in 1..Len(tx_log) :
         (tx_log[i].step = "nonce" /\ tx_log[i].outcome = "set") =>
            /\ i > 1
            /\ tx_log[i - 1].step = "send"
            /\ tx_log[i - 1].outcome = NONCE_TOO_LOW
            /\ tx_log[i].nonce > tx_log[i - 1].nonce
    /\ tx_depth <= 1

\* C29: _check_and_approve_token sends nothing when the allowance read is at
\* least the amount; otherwise every transaction it sends approves exactly
\* the amount, the node takes at most one approve transaction, and success
\* is returned only after a receipt with status 1; swap reaches the
\* transaction of the pair only without approval or after a successful one.
C29_ApproveIfNeeded ==
    LET sends == {i \in 1..Len(tx_log) : tx_log[i].step = "send"}
        taken == {i \in sends : tx_log[i].outcome = "accepted"}
    IN  /\ \A i \in 1..Len(tx_log) :
             (/\ tx_log[i].step = "allowance"
              /\ tx_log[i].outcome = "read"
              /\ tx_log[i].amount >= amount) =>
                /\ i < Len(tx_log) => tx_log[i + 1].step = "router"
                /\ (i = Len(tx_log) /\ tx_call = "approve") =>
                      (tx_pc = "done" /\ tx_ret.ok)
        /\ tx_call # "send" => \A i \in sends : tx_log[i].amount = amount
        /\ tx_call = "approve" => Cardinality({tx_log[i].nonce : i \in taken}) <= 1
        /\ (tx_call = "approve" /\ tx_pc = "done" /\ tx_ret.kind = "approved") =>
              /\ tx_ret.ok
              /\ tx_log[Len(tx_log)].step = "wait"
              /\ tx_log[Len(tx_log)].outcome = "status 1"
        /\ \A i \in 1..Len(tx_log) :
             (/\ tx_log[i].step = "router"
              /\ swap_first_step(name_token_1, amount) = "allowance") =>
                /\ i > 1
                /\ \/ /\ tx_log[i - 1].step = "allowance"
                      /\ tx_log[i - 1].outcome = "read"
                      /\ tx_log[i - 1].amount >= amount
                   \/ /\ tx_log[i - 1].step = "wait"
                      /\ tx_log[i - 1].outcome = "status 1"

(***************************************************************************)
(* Claims about run_send_to_friends                                        *)
(***************************************************************************)
\* C30: with a positive balance and a positive MAX_SEND_PHRS the amount drawn
\* is at least 0.001 and at most the smaller of MAX_SEND_PHRS and the
\* balance.
C30_AmountWithinBalance ==
    (send_amount # -1 /\ balance > 0 /\ MAX_SEND_PHRS > 0) =>
        /\ LOWER_SEND <= send_amount
        /\ send_amount <= MAX_SEND_PHRS
        /\ send_amount <= balance

(***************************************************************************)
(* Claims about apply_slippage                                             *)
(***************************************************************************)
\* floor(q * (100 - S) / 100)
FloorOfSlippage(q, S) == IntDivMod(IntMul(q, 100 - S), 100).q

\* C31: for every quote q and slippage S in 0..100 apply_slippage returns
\* floor(q * (100 - S) / 100), 950,000 for 1,000,000 and 5, and never more
\* than q.
C31_SlippageFloor ==
    slip_pc = "done" =>
        /\ amount_out_minimum = FloorOfSlippage(quoted, slippage)
        /\ (quoted = IntOf(1000000) /\ slippage = 5) =>
              amount_out_minimum = IntOf(950000)
        /\ IntLeq(amount_out_minimum, quoted)

(***************************************************************************)
(* Claims about the captcha solver                                         *)
(***************************************************************************)
\* the steps logged during one attempt of solve_captcha
StepsOfAttempt(a) ==
    {cap_log[i].step : i \in {j \in 1..Len(cap_log) : cap_log[j].attempt = a}}

\* C32: every attempt of solve_captcha, up to MAX_RETRY_ATTEMPTS of them,
\* runs the whole operation again, key discovery included; a fatal error
\* ends the call on the attempt where it occurs and is the error raised; a
\* finished call has a token or an error.
C32_WholeSolveRetried ==
    /\ cap_attempt < MAX_RETRY_ATTEMPTS
    /\ \A a \in 0..cap_attempt :
         "create" \in StepsOfAttempt(a) => "find" \in StepsOfAttempt(a)
    /\ \A i \in 1..Len(cap_log) :
         cap_log[i].outcome \in FatalErrors =>
            /\ i = Len(cap_log)
            /\ cap_pc = "done"
            /\ cap_ret = cap_log[i].outcome
    /\ cap_pc = "done" => cap_ret # ""

\* C33: when the bind endpoint answers 400 with a JSON body carrying a
\* message, the error raised by link_*_account holds that message.
C33_PlatformMessageSurfaced ==
    (/\ link_log # <<>>
     /\ link_log[Len(link_log)].kind = "bind"
     /\ link_log[Len(link_log)].status = 400
     /\ bind_body.json
     /\ bind_body.message # "") =>
        is_in(bind_body.message, link_error)

\* the transfers of the run that were broadcast
Broadcast == {i \in 1..Len(transfers) : transfers[i] # "not sent"}

\* C34: one call of run_send_to_friends broadcasts at most one transfer,
\* also when the transfer reverted or is pending or /task/verify failed.
C34_OneTransferPerRun == Cardinality(Broadcast) <= 1

\* C35: for every pair of distinct token symbols swap selects a routing case
\* and builds its transaction before _process_transaction: the transaction
\* of the pair is never reached with tx_params unbound.
C35_EveryPairRouted ==
    \A i \in 1..Len(tx_log) :
        tx_log[i].step = "router" =>
            /\ routing_case(name_token_1, name_token_2) # "none"
            /\ tx_log[i].outcome # "UnboundLocalError"

(***************************************************************************)
(* Claims about what finalize_module_execution reports                     *)
(***************************************************************************)
\* initialize_module_processing has run since process_module was entered:
\* always for a standard module, from the first cycle on for the auto-route
ResetInThisCall == config_module # "auto_route" \/ cycle >= 1

\* C36: every aggregated report and every final-statistics banner that
\* process_module emits comes after a reset (initialize_module_processing)
\* performed within the same process_module call, the auto-route with an
\* empty or unavailable route included
C36_FinalizeAfterReset ==
    [][(reports_sent' > reports_sent \/ stats_logged' > stats_logged)
          => ResetInThisCall]_vars

(***************************************************************************)
(* Claims about the progress counters                                      *)
(***************************************************************************)
\* C37: in every state of a module run the progress counters satisfy
\* success <= processed <= total, and total is the roster size, however the
\* account tasks interleave and whether their handlers return or raise
C37_CountersOrdered ==
    /\ progress.success <= progress.processed
    /\ progress.processed <= progress.total
    /\ progress.total = accounts

\* two concurrent tasks: one counted as a success, the other raised and was
\* counted by the except clause, the first not yet recorded
C37_Witness ==
    /\ accounts = 2
    /\ progress = [processed |-> 2, success |-> 1, total |-> 2]
    /\ \E a, b \in Roster : tpc[a] = "logged" /\ tpc[b] = "error_logged"

(***************************************************************************)
(* Claims about the route as a rearrangement of the task list              *)
(***************************************************************************)
\* C38: create_optimized_route returns a permutation of its input, duplicates
\* included: every task name occurs in the route as many times as in the
\* input, none is lost and none is added
C38_RouteIsPermutation ==
    rpc # "start" =>
      /\ Len(initial_route) = Len(ROUTE_TASK)
      /\ \A n \in Range(ROUTE_TASK) \cup Range(initial_route) :
            Count(initial_route, n) = Count(ROUTE_TASK, n)

\* a list with a priority name, a social connection and the statistics task
\* given twice each has been built into a route
C38_Witness ==
    /\ rpc # "start"
    /\ Len(ROUTE_TASK) = 4
    /\ \E n \in {"full_registration", "full_faucets", "statistics_account"} :
          Count(ROUTE_TASK, n) = 2 /\ Count(initial_route, n) = 2
    /\ \E n \in social_connections \cup faucet_list :
          Count(ROUTE_TASK, n) = 2 /\ Count(initial_route, n) = 2

(***************************************************************************)
(* Claims about the number of handler invocations of a route               *)
(***************************************************************************)
\* C39: for a ROUTE_TASK list of registered handler names, auto_route among
\* them, the route execution of one account invokes at most one handler per
\* entry of the route
C39_OneInvocationPerEntry ==
    nest_pc \in {"exec", "done"} => Len(handler_calls) <= Len(top_route)

(***************************************************************************)
(* Claims about what a handler leaves open                                 *)
(***************************************************************************)
\* C40: after a registered handler has returned or raised, every HTTP
\* session and every wallet RPC transport it opened is closed
C40_NothingLeftOpen ==
    res_pc = "ended" =>
        /\ api_client # "open"
        /\ \A i \in 1..Len(providers) : providers[i] # "open"
====
